---- MODULE Spec2Model ----
(***************************************************************************)
(* Model of the render instruction assembler of MCVK                       *)
(* (src/native/src/vulkan/insn_assembler.rs) and of the command queue it   *)
(* pushes into (src/native/src/vulkan/commands.rs).                        *)
(*                                                                         *)
(* Abstractions:                                                           *)
(*  - a 4x4 float matrix is an affine map x |-> a*x + b over the integers  *)
(*    modulo MatMod, written <<a, b>> (the 2x2 matrix [[a, b], [0, 1]]).   *)
(*    The matrix product is composition, which is not commutative, the     *)
(*    identity is <<1, 0>>, a translation is <<1, d>>, a scaling <<s, 0>>, *)
(*    a rotation <<-1, 0>> or the identity, and an orthographic projection *)
(*    (a scaling and a translation) is <<s, t>>.                           *)
(*  - a client array's data is its sequence of bytes (0..255).             *)
(*  - a panic (an index out of bounds, an unwrap of None, a failed         *)
(*    assert_eq!, todo!()) is recorded in `panicked`; nothing runs after   *)
(*    it.  State written before the panicking statement stays written.     *)
(***************************************************************************)
EXTENDS Integers, Sequences, FiniteSets, TLC

(***************************************************************************)
(* Bounds of the model                                                     *)
(***************************************************************************)
\* modulus of the matrix entries
MatMod == 3
\* largest vec_count of a SetPointer instruction
MaxVerts == 2
\* commands the Buffered queue may hold before the host stops drawing
MaxCmds == 2
\* deepest matrix stack level the host asks for
MaxDepth == 2

(***************************************************************************)
(* Program constants                                                       *)
(***************************************************************************)
MODELVIEW_MATRIX_IDX == 0
PROJECTION_MATRIX_IDX == 1
TEXTURE_MATRIX_IDX == 2
COLOR_MATRIX_IDX == 3

COLOR_ARRAY_IDX == 0
EDGEFLAG_ARRAY_IDX == 1
FOGCOORD_ARRAY_IDX == 2
COLORINDEX_ARRAY_IDX == 3
NORMAL_ARRAY_IDX == 4
SECONDARYCOLOR_ARRAY_IDX == 5
TEXCOORD_ARRAY_IDX == 6
VERTEX_ARRAY_IDX == 7

MAX_TEXTURE_UNITS == 16

\* capabilities of Enable/Disable: gl_constants::GL_TEXTURE_2D and one other
GL_TEXTURE_2D == "GL_TEXTURE_2D"
GL_OTHER_CAP == "GL_OTHER_CAP"

\* Option<T>: None is the empty sequence, Some(x) the sequence of x alone
None == <<>>
Some(x) == <<x>>
Unwrap(o) == o[1]
NoPanic == "none"

VARIABLES
    active_flags,       \* RenderInsnAssembler.active_flags: set of capabilities
    active_matrix,      \* index of the selected matrix stack
    matrix_stacks,      \* [0..3 -> [top, matrices]]
    active_mvp_cache,   \* None or the memoized projection * model-view
    active_unit,        \* selected texture unit
    texture_units,      \* [0..15 -> bound texture id or None]
    active_color,       \* flat colour (Vec4)
    texcoord,           \* current texcoord (Vec4)
    client_arrays,      \* [0..7 -> ClientArray]
    commands,           \* CommandQueue::Buffered: sequence of RenderCommand
    panicked,           \* NoPanic, or the place of the panic that ended the run
    last,               \* history: the last instruction fed: <<op>> for a matrix
                        \* instruction, a clear or a todo!() instruction,
                        \* <<"DrawArrays", mode, first, count>> for a draw,
                        \* <<"other">> for any other instruction
    render_sandbox,     \* the thread's RENDER_SANDBOX: [kind |-> "None"],
                        \* [kind |-> "List", insns |-> ...] or [kind |-> "Assembler"]
                        \* (the assembler's fields are the variables above)
    locked,             \* SpinLock.locked of RENDER_SANDBOX
    cache,              \* PipelineCompiler.cache: set of [key, value], a spec
                        \* and the DynamicPipeline it maps to (weak values)
    vertex_shaders,     \* PipelineCompiler.vertex_shaders: set of [spec, module]
    fragment_shaders,   \* PipelineCompiler.fragment_shaders: set of [spec, module]
    held,               \* the DynamicPipelines some caller still holds an Arc to
    compiled,           \* history: how many pipelines and shader modules were built
    recorders,          \* [Recorders -> CommandRecorder], each with the thread
                        \* that feeds it
    compiler_lock,      \* the RwLock of Ref<PipelineCompiler>: [writer, poisoned]
    arrays,             \* TextureStorage.arrays: [ArrayIndex -> TextureArray],
                        \* each with its size, layer_count and free set
    next_array,         \* TextureStorage.next_array
    handles,            \* every TextureStorageHandle allocate has returned,
                        \* in order: [indices |-> [array, slots], live], where
                        \* live is FALSE once it was dropped; the `free` of a
                        \* handle is the free set of arrays[indices.array]
    textures,           \* the TextureManager: the TextureHandles it has made
                        \* (by texture_id), the ids in textures_by_id, the
                        \* id under each name of textures_by_name,
                        \* next_texture_id, unupdated_textures,
                        \* is_resource_pack_reload, and the history of the
                        \* reload in progress
    spin                \* a SpinLock<T> shared by the threads of SpinThreads:
                        \* [locked, data], the place of each thread (`at`),
                        \* the value each thread read through its guard
                        \* (`read`), and history: whether the thread's swap
                        \* has failed since it called lock() (`waited`) and
                        \* how many updates of the data were completed

asmVars == <<active_flags, active_matrix, matrix_stacks, active_mvp_cache,
             active_unit, texture_units, active_color, texcoord, client_arrays>>
sandboxVars == <<render_sandbox, locked>>
compilerVars == <<cache, vertex_shaders, fragment_shaders, held, compiled>>
recorderVars == <<recorders, compiler_lock>>
storageVars == <<arrays, next_array, handles>>
envVars == <<sandboxVars, compilerVars, recorderVars, storageVars, textures, spin>>
\* the environment without the sandbox, and without the compiler
exceptSandbox == <<compilerVars, recorderVars, storageVars, textures, spin>>
exceptCompiler == <<sandboxVars, recorderVars, storageVars, textures, spin>>
exceptStorage == <<sandboxVars, compilerVars, recorderVars, textures, spin>>
exceptTextures == <<sandboxVars, compilerVars, recorderVars, storageVars, spin>>
exceptSpin == <<sandboxVars, compilerVars, recorderVars, storageVars, textures>>
vars == <<asmVars, commands, panicked, last, envVars>>

(***************************************************************************)
(* Matrices                                                                *)
(***************************************************************************)
Scalars == 0 .. (MatMod - 1)
Mat == Scalars \X Scalars

Identity == <<1 % MatMod, 0>>

\* TMat4 product x * y
MatMul(x, y) == <<(x[1] * y[1]) % MatMod, (x[1] * y[2] + x[2]) % MatMod>>

(***************************************************************************)
(* MatrixStack.  `matrices` is a Rust Vec (0-based); the model keeps it as *)
(* a sequence, so Rust's matrices[i] is matrices[i + 1] here, and an index *)
(* i is in bounds when i < Len(matrices).                                  *)
(***************************************************************************)
MatrixStackNew == [top |-> 0, matrices |-> <<Identity>>]

InBounds(s, i) == i >= 0 /\ i < Len(s.matrices)
At(s, i) == s.matrices[i + 1]

\* push(): returns the stack after the call and whether the call panicked.
\* `self.top += 1` is written before either branch indexes matrices.
MatrixStackPush(s) ==
    LET t == s.top + 1
        bumped == [s EXCEPT !.top = t]
    IN  IF t > Len(s.matrices)
        THEN IF InBounds(s, t - 1)
             THEN [stack |-> [bumped EXCEPT !.matrices = Append(s.matrices, At(s, t - 1))],
                   panic |-> NoPanic]
             ELSE [stack |-> bumped, panic |-> "push:index_out_of_bounds"]
        ELSE IF InBounds(s, t) /\ InBounds(s, t - 1)
             THEN [stack |-> [bumped EXCEPT !.matrices[t + 1] = At(s, t - 1)],
                   panic |-> NoPanic]
             ELSE [stack |-> bumped, panic |-> "push:index_out_of_bounds"]

\* pop() without its guard
MatrixStackPop_unguarded(s) == [s EXCEPT !.top = s.top - 1]

\* pop()
MatrixStackPop(s) ==
    IF s.top > 0 THEN [s EXCEPT !.top = s.top - 1] ELSE s

\* get()
MatrixStackGet(s) == At(s, s.top)

\* the mutations of the top matrix: load_identity, translate, scale, rotate, ortho
MatrixStackLoadIdentity(s) == [s EXCEPT !.matrices[s.top + 1] = Identity]
MatrixStackTranslate(s, d) ==
    [s EXCEPT !.matrices[s.top + 1] = MatMul(<<1 % MatMod, d>>, At(s, s.top))]
MatrixStackScale(s, k) ==
    [s EXCEPT !.matrices[s.top + 1] = MatMul(<<k, 0>>, At(s, s.top))]
\* angle is 0 (no turn) or 1 (a half turn, the map x |-> -x)
MatrixStackRotate(s, angle) ==
    LET qm == IF angle = 0 THEN Identity ELSE <<(MatMod - 1) % MatMod, 0>>
    IN  [s EXCEPT !.matrices[s.top + 1] = MatMul(qm, At(s, s.top))]
MatrixStackOrtho(s, m) ==
    [s EXCEPT !.matrices[s.top + 1] = MatMul(m, At(s, s.top))]

(***************************************************************************)
(* Client arrays                                                           *)
(***************************************************************************)
GLDataTypes == {"U8", "I8", "U16", "I16", "U32", "I32", "F32", "F64"}

\* size in bytes of one item of a data type
DataTypeSize(t) ==
    CASE t \in {"U8", "I8"} -> 1
      [] t \in {"U16", "I16"} -> 2
      [] t \in {"U32", "I32", "F32"} -> 4
      [] t = "F64" -> 8

ClientArrayNew ==
    [enabled |-> FALSE, vertex_count |-> 0, data_type |-> "U8",
     element_count |-> 0, data |-> None]

get_client_array_index(t) ==
    CASE t = "Color" -> COLOR_ARRAY_IDX
      [] t = "EdgeFlag" -> EDGEFLAG_ARRAY_IDX
      [] t = "FogCoord" -> FOGCOORD_ARRAY_IDX
      [] t = "ColorIndex" -> COLORINDEX_ARRAY_IDX
      [] t = "Normal" -> NORMAL_ARRAY_IDX
      [] t = "SecondaryColor" -> SECONDARYCOLOR_ARRAY_IDX
      [] t = "TexCoord" -> TEXCOORD_ARRAY_IDX
      [] t = "Vertex" -> VERTEX_ARRAY_IDX

get_client_array_type(i) ==
    CASE i = COLOR_ARRAY_IDX -> "Color"
      [] i = EDGEFLAG_ARRAY_IDX -> "EdgeFlag"
      [] i = FOGCOORD_ARRAY_IDX -> "FogCoord"
      [] i = COLORINDEX_ARRAY_IDX -> "ColorIndex"
      [] i = NORMAL_ARRAY_IDX -> "Normal"
      [] i = SECONDARYCOLOR_ARRAY_IDX -> "SecondaryColor"
      [] i = TEXCOORD_ARRAY_IDX -> "TexCoord"
      [] i = VERTEX_ARRAY_IDX -> "Vertex"

\* PointerArrayType::is_supported
is_supported(t) == t \in {"Color", "Normal", "TexCoord", "Vertex"}

\* VertexInputType::from(PointerArrayType); "panic" where the match arm panics
VertexInputTypeFrom(t) ==
    CASE t = "Color" -> "Color"
      [] t = "Normal" -> "Normal"
      [] t = "TexCoord" -> "TexCoord"
      [] t = "Vertex" -> "Position"
      [] OTHER -> "panic"

VertexInputTypes == {"Position", "Normal", "Color", "TexCoord", "TexIndex"}

\* align_to doing nothing
AlignTo_unaligned(stride, width) == stride

\* VertexBufferLayout::align_to
AlignTo(stride, width) ==
    LET n_past_align == stride % width
    IN  IF n_past_align > 0 THEN stride + (width - n_past_align) ELSE stride

\* get_active_texture(): texture_units[active_unit].bound_texture;
\* the index panics when active_unit is not below MAX_TEXTURE_UNITS
ActiveUnitInBounds == active_unit < MAX_TEXTURE_UNITS
get_active_texture == texture_units[active_unit]

is_enabled(flag) == flag \in active_flags

(***************************************************************************)
(* IEEE-754 binary32 encoding of `src[i] as f32` and of                    *)
(* `(src[i] as f32) / (MAX as f32)` for 32-bit integers, on little-endian  *)
(* bytes.  A 32-bit magnitude is kept as two 16-bit halves <<hi, lo>>.     *)
(* u32::MAX as f32 is 2^32 and i32::MAX as f32 is 2^31, so the normalized  *)
(* value is the converted one with its exponent lowered by 32 or 31.       *)
(***************************************************************************)
RECURSIVE Pow2(_)
Pow2(n) == IF n = 0 THEN 1 ELSE 2 * Pow2(n - 1)

RECURSIVE FloorLog2(_)
FloorLog2(n) == IF n <= 1 THEN 0 ELSE 1 + FloorLog2(n \div 2)

\* the four little-endian bytes b (a sequence of length 4) as halves
HalvesOf(b) == <<b[3] + 256 * b[4], b[1] + 256 * b[2]>>

\* bytes of the float with sign bit sg, magnitude <<hi, lo>> * 2^(-down)
F32Bytes(sg, hi, lo, down) ==
    IF hi = 0 /\ lo = 0 THEN <<0, 0, 0, 0>>
    ELSE
    LET e0 == IF hi > 0 THEN 16 + FloorLog2(hi) ELSE FloorLog2(lo)
        sh == e0 - 23
        q0 == IF sh <= 0 THEN (hi * 65536 + lo) * Pow2(0 - sh)
              ELSE hi * Pow2(16 - sh) + (lo \div Pow2(sh))
        r == IF sh <= 0 THEN 0 ELSE lo % Pow2(sh)
        half == IF sh <= 0 THEN 1 ELSE Pow2(sh - 1)
        up == sh > 0 /\ (r > half \/ (r = half /\ q0 % 2 = 1))
        q1 == IF up THEN q0 + 1 ELSE q0
        carry == q1 = 16777216
        q == IF carry THEN 8388608 ELSE q1
        e == IF carry THEN e0 + 1 ELSE e0
        ex == e + 127 - down
        mant == q - 8388608
    IN  <<mant % 256, (mant \div 256) % 256,
          (mant \div 65536) + 128 * (ex % 2), (ex \div 2) + 128 * sg>>

\* one 32-bit integer item (4 source bytes) converted to the bytes of an f32
ConvertInt32(t, b, norm) ==
    LET h == HalvesOf(b)
        neg == t = "I32" /\ h[1] >= 32768
        lo == IF neg THEN (65536 - h[2]) % 65536 ELSE h[2]
        hi == IF neg THEN (65535 - h[1]) + (IF h[2] = 0 THEN 1 ELSE 0) ELSE h[1]
        down == IF ~norm THEN 0 ELSE IF t = "U32" THEN 32 ELSE 31
    IN  F32Bytes(IF neg THEN 1 ELSE 0, hi, lo, down)

(***************************************************************************)
(* get_vertex_buffer_layout                                                *)
(* The walk over client_arrays is a fold over the indices 0..7 with the    *)
(* accumulator [fields, stride, layout, vertex_count, panic].  A slot      *)
(* names its array by index.  With element counts up to 4 the stride stays *)
(* below 256, the width of the u8 the code keeps it in.                    *)
(***************************************************************************)
NoFields == [f \in VertexInputTypes |-> None]

LayoutStart ==
    [fields |-> NoFields, stride |-> 0, layout |-> <<>>,
     vertex_count |-> None, panic |-> NoPanic]

\* the vertex count after an array with n vertices has been looked at
PrunedVertexCount(vc, n) ==
    IF vc # None
    THEN IF n # Unwrap(vc) /\ n < Unwrap(vc) THEN Some(n) ELSE vc
    ELSE Some(n)

\* the field and the slot of an included array appended at the current stride
WithField(acc, i, field_type, data_type, num_elements) ==
    [acc EXCEPT
        !.fields[field_type] = Some([offset |-> acc.stride, data_type |-> data_type,
                                     num_elements |-> num_elements]),
        !.layout = Append(@, [array |-> i, buffer_offset |-> acc.stride,
                              data_type |-> data_type,
                              array_type |-> get_client_array_type(i)]),
        !.stride = AlignTo(acc.stride + DataTypeSize(data_type) * num_elements, 4)]

\* the texcoord array is kept only for a float 2-vector
TexCoordShapeOk(array) ==
    array.data_type \in {"F32", "F64"} /\ array.element_count = 2

LayoutStep(acc, i) ==
    LET array == client_arrays[i]
        array_type == get_client_array_type(i)
        counted == [acc EXCEPT
                       !.vertex_count = PrunedVertexCount(@, array.vertex_count)]
        fielded == WithField(counted, i, VertexInputTypeFrom(array_type),
                             array.data_type, array.element_count)
    IN  IF acc.panic # NoPanic \/ ~array.enabled THEN acc
        ELSE IF ~is_supported(array_type) THEN acc
        ELSE IF array.data = None THEN acc
        ELSE IF array_type = "TexCoord"
        THEN IF ~is_enabled(GL_TEXTURE_2D) THEN counted
             ELSE IF ~ActiveUnitInBounds
             THEN [counted EXCEPT !.panic = "get_active_texture:index_out_of_bounds"]
             ELSE IF get_active_texture = None THEN counted
             ELSE IF ~TexCoordShapeOk(array) THEN counted
             ELSE WithField(fielded, i, "TexIndex", "U16", 1)
        ELSE fielded

RECURSIVE LayoutFold(_, _)
LayoutFold(acc, i) ==
    IF i > VERTEX_ARRAY_IDX THEN acc ELSE LayoutFold(LayoutStep(acc, i), i + 1)

\* the result carries vertex_count unwrapped (0 beside a panic)
get_vertex_buffer_layout ==
    LET acc == LayoutFold(LayoutStart, COLOR_ARRAY_IDX)
    IN  IF acc.panic # NoPanic THEN [acc EXCEPT !.vertex_count = 0]
        ELSE IF acc.vertex_count = None
        THEN [acc EXCEPT !.vertex_count = 0,
                         !.panic = "get_vertex_buffer_layout:unwrap_none"]
        ELSE [acc EXCEPT !.vertex_count = Unwrap(@)]

(***************************************************************************)
(* assemble_buffer                                                         *)
(* Allocations are taken as 4-byte aligned, so align_to::<f32> of a dest   *)
(* slice of n bytes holds n div 4 floats and align_to::<T> of a src slice  *)
(* holds n div size_of(T) items.                                           *)
(***************************************************************************)
\* the slot the texcoord branch looks for: one whose array type converts to TexIndex
FindTexIndex(layout) ==
    {k \in 1 .. Len(layout) : VertexInputTypeFrom(layout[k].array_type) = "TexIndex"}

\* the panic, if any, of packing slot `slot` for vertex_count vertices
SlotPanic(layout, slot, vertex_count) ==
    LET array == client_arrays[slot.array]
        input_type == VertexInputTypeFrom(slot.array_type)
        dest_byte_size == array.element_count * DataTypeSize(slot.data_type)
        src_byte_size == array.element_count * DataTypeSize(array.data_type)
        dest_len == dest_byte_size \div 4
        src_len == src_byte_size \div DataTypeSize(array.data_type)
    IN  IF input_type = "TexIndex" THEN NoPanic
        ELSE IF input_type = "TexCoord"
        THEN IF FindTexIndex(layout) = {} THEN "assemble_buffer:texindex_unwrap_none"
             ELSE NoPanic
        ELSE IF vertex_count = 0 THEN NoPanic
        ELSE IF src_byte_size > Len(Unwrap(array.data))
        THEN "assemble_buffer:src_slice_out_of_range"
        ELSE IF array.data_type \notin {"F32", "F64"} /\ dest_len # src_len
        THEN "assemble_buffer:assert_eq_len"
        ELSE IF vertex_count * src_byte_size > Len(Unwrap(array.data))
        THEN "assemble_buffer:src_slice_out_of_range"
        ELSE NoPanic

RECURSIVE FirstSlotPanic(_, _, _)
FirstSlotPanic(layout, k, vertex_count) ==
    IF k > Len(layout) THEN NoPanic
    ELSE LET p == SlotPanic(layout, layout[k], vertex_count)
         IN  IF p # NoPanic THEN p ELSE FirstSlotPanic(layout, k + 1, vertex_count)

\* the copy with src_start left at the first vertex
SlotByte_firstVertex(slot, vertex_idx, j) ==
    Unwrap(client_arrays[slot.array].data)[j + 1]

\* byte j (0-based) that slot `slot` writes for vertex vertex_idx
SlotByte(slot, vertex_idx, j) ==
    LET array == client_arrays[slot.array]
        src_byte_size == array.element_count * DataTypeSize(array.data_type)
        src_start == vertex_idx * src_byte_size
        item == j \div 4
        norm == slot.array_type \in {"Color", "SecondaryColor"}
    IN  IF array.data_type \in {"F32", "F64"}
        THEN Unwrap(array.data)[src_start + j + 1]
        ELSE ConvertInt32(array.data_type,
                          SubSeq(Unwrap(array.data), src_start + 4 * item + 1,
                                 src_start + 4 * item + 4),
                          norm)[(j % 4) + 1]

\* the slots that write byte `off` of a vertex (texcoord slots write nothing
\* the source shows: the texcoord loop body ends at `self.texture_lookup.`)
WritersOf(layout, off) ==
    {k \in 1 .. Len(layout) :
        /\ VertexInputTypeFrom(layout[k].array_type) \notin {"TexCoord", "TexIndex"}
        /\ layout[k].buffer_offset <= off
        /\ off < layout[k].buffer_offset
                 + client_arrays[layout[k].array].element_count
                   * DataTypeSize(layout[k].data_type)}

PackedBuffer(layout, stride, vertex_count) ==
    [n \in 1 .. (vertex_count * stride) |->
        LET vertex_idx == (n - 1) \div stride
            off == (n - 1) % stride
            ws == WritersOf(layout, off)
        IN  IF ws = {} THEN 0
            ELSE LET k == CHOOSE x \in ws : \A y \in ws : y <= x
                 IN  SlotByte(layout[k], vertex_idx, off - layout[k].buffer_offset)]

assemble_buffer ==
    LET l == get_vertex_buffer_layout
        desc == [fields |-> l.fields, stride |-> l.stride]
        p == IF l.panic # NoPanic THEN l.panic
             ELSE FirstSlotPanic(l.layout, 1, l.vertex_count)
    IN  [desc |-> desc,
         buffer |-> IF p # NoPanic THEN <<>>
                    ELSE PackedBuffer(l.layout, l.stride, l.vertex_count),
         vertex_count |-> l.vertex_count,
         panic |-> p]

(***************************************************************************)
(* CommandQueue (the Buffered variant) and RenderCommand                   *)
(***************************************************************************)
CommandQueuePush(q, cmd) == Append(q, cmd)

ClearDepthCmd == [kind |-> "ClearDepth"]
BindCmd(pipeline, push_constants) ==
    [kind |-> "BindDynamicGraphicsPipeline", pipeline |-> pipeline,
     push_constants |-> push_constants]
DrawCmd(first, count, buffer) ==
    [kind |-> "Draw", start_vertex |-> first, vertex_count |-> count, data |-> buffer]

(***************************************************************************)
(* RenderInsnAssembler                                                     *)
(***************************************************************************)
White == <<1, 1, 1, 1>>

\* RenderSandbox values
SandboxNone == [kind |-> "None"]
SandboxList(insns) == [kind |-> "List", insns |-> insns]
SandboxAssembler == [kind |-> "Assembler"]

\* ---- TextureStorage ----
\* image_format_properties(..).max_array_layers of the device, as u16
DeviceMaxArrayLayers == 256

get_layers_heuristic(pixels) ==
    IF pixels < 16 * 16 THEN 32
    ELSE IF pixels < 64 * 64 THEN 16
    ELSE IF pixels < 256 * 256 THEN 4
    ELSE 1

\* the layer count create_texture_array settles on for an array that must
\* hold min_layers textures
ArrayLayers(width, height, min_layers) ==
    LET layers == IF width = 16 /\ height = 16 THEN 4096
                  ELSE IF width = 256 /\ height = 256 THEN 256
                  ELSE get_layers_heuristic(width * height)
        wanted == IF min_layers > layers THEN min_layers ELSE layers
    IN  IF wanted < DeviceMaxArrayLayers THEN wanted ELSE DeviceMaxArrayLayers

\* the TextureArray create_texture_array inserts under `id`, every layer free
TextureArrayNew(id, width, height, mipmapped, min_layers) ==
    LET layers == ArrayLayers(width, height, min_layers)
    IN  [id |-> id, layer_count |-> layers, size |-> <<width, height>>,
         mipmapped |-> mipmapped, free |-> 0 .. (layers - 1)]

\* (0..count).map(|_| free.pop_first().unwrap()): the count smallest slots
RECURSIVE PopFirst(_, _)
PopFirst(free, count) ==
    IF count = 0 THEN <<>>
    ELSE LET first == CHOOSE s \in free : \A t \in free : s <= t
         IN  <<first>> \o PopFirst(free \ {first}, count - 1)

SlotsOf(indices) == {indices.slots[i] : i \in DOMAIN indices.slots}

\* TextureStorage::new: the array of the 16 x 16 missingno texture, whose
\* handle (the first of `handles`) the storage keeps
TextureStorageNew ==
    LET array == TextureArrayNew(0, 16, 16, TRUE, 1)
        slots == PopFirst(array.free, 1)
    IN  [arrays |-> (0 :> [array EXCEPT !.free = @ \ {slots[1]}]),
         next_array |-> 1,
         handles |-> <<[indices |-> [array |-> 0, slots |-> slots],
                        live |-> TRUE]>>]

\* ---- TextureManager ----
\* TextureManager::new.  `made` holds every TextureHandle create_texture has
\* built, by texture_id; textures_by_id is the set of ids whose handle the map
\* holds (each under its own id); textures_by_name maps a name to the id of
\* its handle.  `reload` is history: the textures_by_name of the last
\* begin_texture_reload and the names enqueued and ids freed since.
TextureManagerNew ==
    [made |-> <<>>,
     textures_by_id |-> {},
     textures_by_name |-> <<>>,
     next_texture_id |-> 0,
     unupdated_textures |-> {},
     is_resource_pack_reload |-> FALSE,
     reload |-> [existed |-> <<>>, enqueued |-> {}, freed |-> {}]]

\* ---- SpinLock ----
\* the threads that share the lock
SpinThreads == {1, 2, 3}

\* SpinLock::new(0), no thread inside lock() or holding a guard
SpinLockNew ==
    [locked |-> FALSE, data |-> 0,
     at |-> [t \in SpinThreads |-> "idle"],
     read |-> [t \in SpinThreads |-> 0],
     waited |-> [t \in SpinThreads |-> FALSE],
     updates |-> 0]

\* the recording contexts that share the PipelineCompiler
Recorders == {1, 2}

\* DynamicPipelinePushConstants::default()
NoPushConstants == [mvp |-> None, color |-> None]

\* CommandRecorder::new, with an empty builder.  `at` is the place of the
\* feeding thread: "idle" between commands, "compile" when it holds the write
\* guard for the Bind in `bind`, "panicked" after a panic.  `fed` is the
\* history of the commands feed() was called with.
CommandRecorderNew ==
    [active_dyn_pipeline |-> None, active_gfx_pipeline |-> None, builder |-> <<>>,
     at |-> "idle", bind |-> None, panic |-> NoPanic, fed |-> <<>>]

\* a new assembler, an empty command queue, the thread_local RENDER_SANDBOX
\* (SpinLock::new(RenderSandbox::None)) and a PipelineCompiler with empty caches
Init ==
    /\ active_flags = {}
    /\ active_matrix = 0
    /\ matrix_stacks = [i \in 0 .. 3 |-> MatrixStackNew]
    /\ active_mvp_cache = None
    /\ active_unit = 0
    /\ texture_units = [u \in 0 .. (MAX_TEXTURE_UNITS - 1) |-> None]
    /\ active_color = White
    /\ texcoord = <<0, 0, 0, 0>>
    /\ client_arrays = [i \in 0 .. 7 |-> ClientArrayNew]
    /\ commands = <<>>
    /\ panicked = NoPanic
    /\ last = <<"new">>
    /\ render_sandbox = SandboxNone
    /\ locked = FALSE
    /\ cache = {}
    /\ vertex_shaders = {}
    /\ fragment_shaders = {}
    /\ held = {}
    /\ compiled = [pipelines |-> 0, vertex |-> 0, fragment |-> 0]
    /\ recorders = [r \in Recorders |-> CommandRecorderNew]
    /\ compiler_lock = [writer |-> None, poisoned |-> FALSE]
    /\ arrays = TextureStorageNew.arrays
    /\ next_array = TextureStorageNew.next_array
    /\ handles = TextureStorageNew.handles
    /\ textures = TextureManagerNew
    /\ spin = SpinLockNew

\* every mode selecting the model-view stack
get_matrix_index_modelView(mode) == MODELVIEW_MATRIX_IDX

get_matrix_index(mode) ==
    CASE mode = "ModelView" -> MODELVIEW_MATRIX_IDX
      [] mode = "Projection" -> PROJECTION_MATRIX_IDX
      [] mode = "Texture" -> TEXTURE_MATRIX_IDX
      [] mode = "Color" -> COLOR_MATRIX_IDX

MatrixMutations ==
    {"PushMatrix", "PopMatrix", "LoadIdentity", "Ortho", "Translate", "Rotate", "Scale"}

is_matrix_mutation(op) == op \in MatrixMutations

\* the test with the selected stack left out
InvalidatesMvp_anyStack(op) == is_matrix_mutation(op)

\* the test with the projection stack left out
InvalidatesMvp_modelViewOnly(op) ==
    is_matrix_mutation(op) /\ active_matrix = MODELVIEW_MATRIX_IDX

\* the test feed() makes before it matches on the instruction
InvalidatesMvp(op) ==
    /\ is_matrix_mutation(op)
    /\ (active_matrix = PROJECTION_MATRIX_IDX \/ active_matrix = MODELVIEW_MATRIX_IDX)

\* active_mvp_cache after that test (Option::take)
CacheAfterTake(op) == IF InvalidatesMvp(op) THEN None ELSE active_mvp_cache

TodoInstructions == {"Begin", "Vertex", "End", "AlphaFunc"}

\* the instructions the history names
Named == MatrixMutations \cup TodoInstructions \cup {"MatrixMode", "ClearDepth"}

\* an instruction is fed to an assembler that has not panicked
Fed(op) ==
    /\ panicked = NoPanic
    /\ last' = <<IF op \in Named THEN op ELSE "other">>
    /\ UNCHANGED envVars

\* get_mvp_matrix(): the memoized product, or projection * model-view
get_mvp_matrix ==
    IF active_mvp_cache # None THEN Unwrap(active_mvp_cache)
    ELSE MatMul(MatrixStackGet(matrix_stacks[PROJECTION_MATRIX_IDX]),
                MatrixStackGet(matrix_stacks[MODELVIEW_MATRIX_IDX]))

\* ---- matrix instructions ----
\* (the history keeps the mode that was fed)
FeedMatrixMode(mode) ==
    /\ panicked = NoPanic
    /\ last' = <<"MatrixMode", mode>>
    /\ UNCHANGED envVars
    /\ active_matrix' = get_matrix_index(mode)
    /\ active_mvp_cache' = CacheAfterTake("MatrixMode")
    /\ UNCHANGED <<active_flags, matrix_stacks, active_unit, texture_units,
                   active_color, texcoord, client_arrays, commands, panicked>>

\* a mutation that replaces the selected stack by `stack` and may panic
MutateStack(op, stack, panic) ==
    /\ Fed(op)
    /\ active_mvp_cache' = CacheAfterTake(op)
    /\ matrix_stacks' = [matrix_stacks EXCEPT ![active_matrix] = stack]
    /\ panicked' = panic
    /\ UNCHANGED <<active_flags, active_matrix, active_unit, texture_units,
                   active_color, texcoord, client_arrays, commands>>

FeedPushMatrix ==
    /\ matrix_stacks[active_matrix].top < MaxDepth
    /\ LET r == MatrixStackPush(matrix_stacks[active_matrix])
       IN  MutateStack("PushMatrix", r.stack, r.panic)

FeedPopMatrix ==
    MutateStack("PopMatrix", MatrixStackPop(matrix_stacks[active_matrix]), NoPanic)

FeedLoadIdentity ==
    MutateStack("LoadIdentity",
                MatrixStackLoadIdentity(matrix_stacks[active_matrix]), NoPanic)

FeedOrtho(m) ==
    MutateStack("Ortho", MatrixStackOrtho(matrix_stacks[active_matrix], m), NoPanic)

FeedTranslate(d) ==
    MutateStack("Translate",
                MatrixStackTranslate(matrix_stacks[active_matrix], d), NoPanic)

FeedRotate(angle) ==
    MutateStack("Rotate",
                MatrixStackRotate(matrix_stacks[active_matrix], angle), NoPanic)

FeedScale(k) ==
    MutateStack("Scale", MatrixStackScale(matrix_stacks[active_matrix], k), NoPanic)

\* ---- capabilities ----
FeedEnable(param) ==
    /\ Fed("Enable")
    /\ active_flags' = active_flags \cup {param}
    /\ active_mvp_cache' = CacheAfterTake("Enable")
    /\ UNCHANGED <<active_matrix, matrix_stacks, active_unit, texture_units,
                   active_color, texcoord, client_arrays, commands, panicked>>

FeedDisable(param) ==
    /\ Fed("Disable")
    /\ active_flags' = active_flags \ {param}
    /\ active_mvp_cache' = CacheAfterTake("Disable")
    /\ UNCHANGED <<active_matrix, matrix_stacks, active_unit, texture_units,
                   active_color, texcoord, client_arrays, commands, panicked>>

\* ---- client arrays ----
FeedSetClientState(enabled, array_type) ==
    /\ Fed("SetClientState")
    /\ client_arrays' =
           [client_arrays EXCEPT ![get_client_array_index(array_type)].enabled = enabled]
    /\ active_mvp_cache' = CacheAfterTake("SetClientState")
    /\ UNCHANGED <<active_flags, active_matrix, matrix_stacks, active_unit,
                   texture_units, active_color, texcoord, commands, panicked>>

FeedSetPointer(size, vec_count, array_type, item_type, data) ==
    /\ Fed("SetPointer")
    /\ client_arrays' =
           [client_arrays EXCEPT ![get_client_array_index(array_type)] =
               [@ EXCEPT !.element_count = size, !.vertex_count = vec_count,
                         !.data_type = item_type, !.data = Some(data)]]
    /\ active_mvp_cache' = CacheAfterTake("SetPointer")
    /\ UNCHANGED <<active_flags, active_matrix, matrix_stacks, active_unit,
                   texture_units, active_color, texcoord, commands, panicked>>

\* ---- textures ----
\* the SetActiveTextureUnit arm of feed()
SetActiveTextureUnit(unit) ==
    /\ active_unit' = unit
    /\ active_mvp_cache' = CacheAfterTake("SetActiveTextureUnit")
    /\ UNCHANGED <<active_flags, active_matrix, matrix_stacks, texture_units,
                   active_color, texcoord, client_arrays, commands, panicked>>

FeedSetActiveTextureUnit(unit) ==
    Fed("SetActiveTextureUnit") /\ SetActiveTextureUnit(unit)

\* the BindTexture arm of feed()
BindTexture(id) ==
    /\ active_mvp_cache' = CacheAfterTake("BindTexture")
    /\ IF ActiveUnitInBounds
       THEN /\ texture_units' =
                   [texture_units EXCEPT ![active_unit] = IF id = 0 THEN None ELSE Some(id)]
            /\ panicked' = NoPanic
       ELSE /\ texture_units' = texture_units
            /\ panicked' = "bind_texture:index_out_of_bounds"
    /\ UNCHANGED <<active_flags, active_matrix, matrix_stacks, active_unit,
                   active_color, texcoord, client_arrays, commands>>

FeedBindTexture(id) == Fed("BindTexture") /\ BindTexture(id)

FeedTexCoord(coord) ==
    /\ Fed("TexCoord")
    /\ texcoord' = coord
    /\ active_mvp_cache' = CacheAfterTake("TexCoord")
    /\ UNCHANGED <<active_flags, active_matrix, matrix_stacks, active_unit,
                   texture_units, active_color, client_arrays, commands, panicked>>

FeedSetColor(color) ==
    /\ Fed("SetColor")
    /\ active_color' = color
    /\ active_mvp_cache' = CacheAfterTake("SetColor")
    /\ UNCHANGED <<active_flags, active_matrix, matrix_stacks, active_unit,
                   texture_units, texcoord, client_arrays, commands, panicked>>

\* ---- Begin, Vertex, End, AlphaFunc: todo!() ----
FeedTodo(op) ==
    /\ Fed(op)
    /\ panicked' = "feed:todo"
    /\ active_mvp_cache' = CacheAfterTake(op)
    /\ UNCHANGED <<active_flags, active_matrix, matrix_stacks, active_unit,
                   texture_units, active_color, texcoord, client_arrays, commands>>

\* ---- commands ----
FeedClearDepth ==
    /\ Fed("ClearDepth")
    /\ Len(commands) < MaxCmds
    /\ commands' = CommandQueuePush(commands, ClearDepthCmd)
    /\ active_mvp_cache' = CacheAfterTake("ClearDepth")
    /\ UNCHANGED <<active_flags, active_matrix, matrix_stacks, active_unit,
                   texture_units, active_color, texcoord, client_arrays, panicked>>

FlatPushConstant == [mode |-> "Flat", source |-> "PushConstant"]
TextureMode == [mode |-> "Texture", set |-> 1, binding |-> 0]

\* DynamicPipelineRasterization::default()
DefaultRasterization ==
    [cull_mode |-> "Back", front_face |-> "CounterClockwise", line_width |-> 10,
     color_blending |-> "ignore_source"]

PanicMode == [mode |-> "panic"]

\* the colour mode draw_arrays() picks; PanicMode where get_active_texture() indexes
\* past the texture units
DrawColorMode(desc) ==
    IF GL_TEXTURE_2D \in active_flags
    THEN IF ~ActiveUnitInBounds THEN PanicMode
         ELSE IF get_active_texture # None
         THEN IF desc.fields["TexCoord"] # None THEN TextureMode ELSE FlatPushConstant
         ELSE FlatPushConstant
    ELSE FlatPushConstant

\* draw_arrays() without its early return
DrawSkipped_never == FALSE

\* draw_arrays(): nothing to do without the position array
DrawSkipped == ~client_arrays[VERTEX_ARRAY_IDX].enabled

FeedDrawArrays(mode, first, count) ==
    /\ panicked = NoPanic
    /\ last' = <<"DrawArrays", mode, first, count>>
    /\ Len(commands) + 2 <= MaxCmds
    /\ UNCHANGED envVars
    /\ IF DrawSkipped
       THEN UNCHANGED <<active_mvp_cache, commands, panicked>>
       ELSE LET r == assemble_buffer
                color == DrawColorMode(r.desc)
                pipeline == [draw_mode |-> mode, vertex_buffer |-> r.desc,
                             matrix |-> [mode |-> "MVP", source |-> "PushConstant"],
                             color |-> color,
                             rasterization |-> DefaultRasterization]
                push_constants ==
                    [mvp |-> Some(get_mvp_matrix),
                     color |-> IF color = FlatPushConstant
                               THEN Some(active_color) ELSE None]
            IN  IF r.panic # NoPanic
                THEN /\ panicked' = r.panic
                     /\ UNCHANGED <<active_mvp_cache, commands>>
                ELSE IF color = PanicMode
                THEN /\ panicked' = "get_active_texture:index_out_of_bounds"
                     /\ UNCHANGED <<active_mvp_cache, commands>>
                ELSE /\ active_mvp_cache' = Some(get_mvp_matrix)
                     /\ commands' =
                            CommandQueuePush(
                                CommandQueuePush(commands, BindCmd(pipeline, push_constants)),
                                DrawCmd(first, count, r.buffer))
                     /\ panicked' = NoPanic
    /\ UNCHANGED <<active_flags, active_matrix, matrix_stacks, active_unit,
                   texture_units, active_color, texcoord, client_arrays>>

(***************************************************************************)
(* Inputs of the instruction stream                                        *)
(***************************************************************************)
MatrixModes == {"ModelView", "Projection", "Texture", "Color"}

\* true when the selected stack is one the MVP is made of
OnMvpStack == active_matrix \in {MODELVIEW_MATRIX_IDX, PROJECTION_MATRIX_IDX}

\* operands of the matrix instructions: a unit translation, a mirroring, a half
\* turn and an orthographic box on the projection and model-view stacks; the
\* neutral operands (zero translation, unit scale, no turn, unit box) on the
\* texture and colour stacks
Deltas == IF OnMvpStack THEN {1 % MatMod} ELSE {0}
ScaleFactors == IF OnMvpStack THEN {MatMod - 1} ELSE {1 % MatMod}
Angles == IF OnMvpStack THEN {1} ELSE {0}
Orthos == IF OnMvpStack THEN {<<MatMod - 1, 1 % MatMod>>} ELSE {Identity}

\* the bytes of a client array of len bytes, told apart by seed
MkData(len, seed) == [k \in 1 .. len |-> (16 * seed + 7 * k) % 256]

(***************************************************************************)
(* SpecMatrix: the matrix instructions, with a position array and draws    *)
(***************************************************************************)
NextMatrix ==
    \/ \E mode \in MatrixModes : FeedMatrixMode(mode)
    \/ FeedPushMatrix
    \/ FeedPopMatrix
    \/ FeedLoadIdentity
    \/ \E m \in Orthos : FeedOrtho(m)
    \/ \E d \in Deltas : FeedTranslate(d)
    \/ \E a \in Angles : FeedRotate(a)
    \/ \E k \in ScaleFactors : FeedScale(k)
    \/ \E b \in BOOLEAN : FeedSetClientState(b, "Vertex")
    \/ FeedSetPointer(3, 1, "Vertex", "F32", MkData(12, 1))
    \/ FeedDrawArrays("Tri", 0, 1)
    \/ \E op \in TodoInstructions : FeedTodo(op)

SpecMatrix == Init /\ [][NextMatrix]_vars

(***************************************************************************)
(* SpecDraw: client arrays, capabilities, textures, draws and clears       *)
(***************************************************************************)
DrawArrayTypes == {"Vertex", "Color", "TexCoord", "EdgeFlag"}

\* a SetPointer instruction whose data has the length its counts declare
Pointer(array_type, size, item_type, vec_count) ==
    [array_type |-> array_type, size |-> size, item_type |-> item_type,
     vec_count |-> vec_count,
     data |-> MkData(vec_count * size * DataTypeSize(item_type),
                     get_client_array_index(array_type))]

PointerInputs ==
    {Pointer("Vertex", 3, "F32", n) : n \in 1 .. MaxVerts}
    \cup {Pointer("Vertex", 3, "I16", 1),
          Pointer("Color", 3, "F32", 1),
          Pointer("TexCoord", 2, "F32", 1),
          Pointer("TexCoord", 3, "F32", 1),
          Pointer("EdgeFlag", 1, "U8", 1)}

TextureIds == {0, 7}
TextureUnitInputs == {0, 1}
DrawInputs == {<<"Tri", 0, 3>>, <<"Lines", 1, 2>>}
NextDraw ==
    \/ \E b \in BOOLEAN, t \in DrawArrayTypes : FeedSetClientState(b, t)
    \/ \E p \in PointerInputs :
           FeedSetPointer(p.size, p.vec_count, p.array_type, p.item_type, p.data)
    \/ FeedEnable(GL_TEXTURE_2D)
    \/ FeedDisable(GL_TEXTURE_2D)
    \/ \E id \in TextureIds : FeedBindTexture(id)
    \/ \E u \in TextureUnitInputs : FeedSetActiveTextureUnit(u)
    \/ \E d \in DrawInputs : FeedDrawArrays(d[1], d[2], d[3])
    \/ FeedClearDepth

SpecDraw == Init /\ [][NextDraw]_vars

(***************************************************************************)
(* Properties                                                              *)
(***************************************************************************)
Stacks == 0 .. 3
TopOf(i) == matrix_stacks[i].top
ProjTimesModelView ==
    MatMul(MatrixStackGet(matrix_stacks[PROJECTION_MATRIX_IDX]),
           MatrixStackGet(matrix_stacks[MODELVIEW_MATRIX_IDX]))

\* C1: on each of the four stacks top < matrices.len() in every reachable
\* state, and no stack operation indexes matrices out of bounds.
C1_TopInBounds ==
    /\ \A i \in Stacks : TopOf(i) < Len(matrix_stacks[i].matrices)
    /\ panicked # "push:index_out_of_bounds"

\* C2: PopMatrix on a stack whose top is 0 leaves top at 0, the matrices
\* unchanged and does not panic; top never goes below 0.
C2_PopAtFloorIsNoOp ==
    /\ [](\A i \in Stacks : TopOf(i) >= 0)
    /\ [][(panicked = NoPanic /\ last' = <<"PopMatrix">> /\ TopOf(active_matrix) = 0)
            => (matrix_stacks' = matrix_stacks /\ panicked' = NoPanic)]_vars

C2_Witness ==
    /\ last = <<"PopMatrix">>
    /\ panicked = NoPanic
    /\ TopOf(active_matrix) = 0
    /\ MatrixStackGet(matrix_stacks[active_matrix]) # Identity

\* C3: PushMatrix raises top of the selected stack by one, makes the new top
\* equal to the old top matrix and leaves the lower levels unchanged.
C3_PushDuplicatesTop ==
    [][(panicked = NoPanic /\ last' = <<"PushMatrix">>)
        => LET old == matrix_stacks[active_matrix]
               new == matrix_stacks'[active_matrix]
           IN  /\ panicked' = NoPanic
               /\ new.top = old.top + 1
               /\ Len(new.matrices) > new.top
               /\ At(new, new.top) = At(old, old.top)
               /\ \A l \in 0 .. old.top : At(new, l) = At(old, l)]_vars

\* C4: with a memoized MVP present, a matrix mutation instruction fed while
\* the texture or colour stack is selected leaves the memo in place, and one
\* fed while the projection or model-view stack is selected clears it.
C4_MemoKeptOrCleared ==
    [][(panicked = NoPanic /\ active_mvp_cache # None /\ last'[1] \in MatrixMutations)
        => IF active_matrix \in {TEXTURE_MATRIX_IDX, COLOR_MATRIX_IDX}
           THEN active_mvp_cache' = active_mvp_cache
           ELSE active_mvp_cache' = None]_vars

C4_Witness ==
    /\ last[1] \in MatrixMutations
    /\ active_matrix \in {TEXTURE_MATRIX_IDX, COLOR_MATRIX_IDX}
    /\ active_mvp_cache # None
    /\ Unwrap(active_mvp_cache) # Identity

\* C5: whenever the memoized MVP is present it equals the top of the
\* projection stack times the top of the model-view stack, and the mvp push
\* constant of a bind command equals that product at the moment of its draw.
C5_MemoNeverStale ==
    /\ [](active_mvp_cache # None
            => /\ \A i \in {PROJECTION_MATRIX_IDX, MODELVIEW_MATRIX_IDX} :
                      InBounds(matrix_stacks[i], TopOf(i))
               /\ Unwrap(active_mvp_cache) = ProjTimesModelView)
    /\ [][(last'[1] = "DrawArrays" /\ Len(commands') = Len(commands) + 2)
            => commands'[Len(commands) + 1].push_constants.mvp
                   = Some(ProjTimesModelView)]_vars

C5_Witness ==
    /\ last[1] = "DrawArrays"
    /\ Len(commands) = 2
    /\ active_mvp_cache # None
    /\ MatrixStackGet(matrix_stacks[PROJECTION_MATRIX_IDX]) # Identity
    /\ MatrixStackGet(matrix_stacks[MODELVIEW_MATRIX_IDX]) # Identity
    /\ ProjTimesModelView
           # MatMul(MatrixStackGet(matrix_stacks[MODELVIEW_MATRIX_IDX]),
                    MatrixStackGet(matrix_stacks[PROJECTION_MATRIX_IDX]))

\* the two commands a draw has just appended
LastBind == commands[Len(commands) - 1]
LastDraw == commands[Len(commands)]

\* C6: a DrawArrays fed while the position array is disabled pushes no
\* command, changes no assembler state and does not panic.
C6_DrawWithoutPositionIsNoOp ==
    [][(panicked = NoPanic /\ last'[1] = "DrawArrays"
        /\ ~client_arrays[VERTEX_ARRAY_IDX].enabled)
        => (UNCHANGED asmVars /\ commands' = commands /\ panicked' = NoPanic)]_vars

C6_Witness ==
    /\ last[1] = "DrawArrays"
    /\ panicked = NoPanic
    /\ ~client_arrays[VERTEX_ARRAY_IDX].enabled
    /\ client_arrays[VERTEX_ARRAY_IDX].data # None
    /\ client_arrays[COLOR_ARRAY_IDX].enabled
    /\ client_arrays[COLOR_ARRAY_IDX].data # None
    /\ GL_TEXTURE_2D \in active_flags
    /\ commands = <<>>

\* C7: after any sequence of SetClientState, SetPointer (data length matching
\* its counts), Enable, Disable, BindTexture and SetActiveTextureUnit (unit
\* below 16) instructions, a DrawArrays returns without panicking.
C7_DrawNeverPanics ==
    last[1] = "DrawArrays" => panicked = NoPanic

\* C8: each ClearDepth instruction appends exactly one ClearDepth command, each
\* DrawArrays fed with the position array enabled appends exactly one
\* BindDynamicGraphicsPipeline followed by one Draw, and no other instruction
\* changes the queue.
C8_QueueFollowsInstructions ==
    [][panicked = NoPanic =>
        IF last'[1] = "ClearDepth"
        THEN commands' = Append(commands, ClearDepthCmd)
        ELSE IF last'[1] = "DrawArrays" /\ client_arrays[VERTEX_ARRAY_IDX].enabled
        THEN /\ Len(commands') = Len(commands) + 2
             /\ SubSeq(commands', 1, Len(commands)) = commands
             /\ commands'[Len(commands) + 1].kind = "BindDynamicGraphicsPipeline"
             /\ commands'[Len(commands) + 2].kind = "Draw"
        ELSE commands' = commands]_vars

\* the assembler holds a position array of 3 x float32 and nothing else
OnlyFloatPositions ==
    /\ client_arrays[VERTEX_ARRAY_IDX].enabled
    /\ client_arrays[VERTEX_ARRAY_IDX].data # None
    /\ client_arrays[VERTEX_ARRAY_IDX].data_type = "F32"
    /\ client_arrays[VERTEX_ARRAY_IDX].element_count = 3
    /\ \A i \in 0 .. 7 :
           i # VERTEX_ARRAY_IDX => (~client_arrays[i].enabled /\ client_arrays[i].data = None)
    /\ active_flags = {}

\* C9: SetClientState(Vertex, true), SetPointer(Vertex, 3 x float32, N
\* vertices, data) and DrawArrays(mode, first, count) fed to a new assembler
\* yield exactly one bind command with colour mode Flat(PushConstant) followed
\* by one draw command with start_vertex = first, vertex_count = count and a
\* buffer of N * 12 bytes equal to data.
C9_FloatPositionsPassThrough ==
    [][(panicked = NoPanic /\ last'[1] = "DrawArrays" /\ OnlyFloatPositions)
        => LET n == Len(commands)
               position == client_arrays[VERTEX_ARRAY_IDX]
           IN  /\ panicked' = NoPanic
               /\ Len(commands') = n + 2
               /\ SubSeq(commands', 1, n) = commands
               /\ commands'[n + 1].kind = "BindDynamicGraphicsPipeline"
               /\ commands'[n + 1].pipeline.color = FlatPushConstant
               /\ commands'[n + 1].pipeline.draw_mode = last'[2]
               /\ commands'[n + 2].kind = "Draw"
               /\ commands'[n + 2].start_vertex = last'[3]
               /\ commands'[n + 2].vertex_count = last'[4]
               /\ Len(commands'[n + 2].data) = position.vertex_count * 12
               /\ commands'[n + 2].data = Unwrap(position.data)]_vars

C9_Witness ==
    /\ last = <<"DrawArrays", "Lines", 1, 2>>
    /\ OnlyFloatPositions
    /\ client_arrays[VERTEX_ARRAY_IDX].vertex_count = MaxVerts
    /\ Len(commands) = 2

\* the client arrays the vertex layout includes, as the layout rules state them
IncludedInLayout(i) ==
    LET array == client_arrays[i]
    IN  /\ array.enabled
        /\ is_supported(get_client_array_type(i))
        /\ array.data # None
        /\ get_client_array_type(i) = "TexCoord"
               => /\ GL_TEXTURE_2D \in active_flags
                  /\ get_active_texture # None
                  /\ TexCoordShapeOk(array)

IncludedCounts == {client_arrays[i].vertex_count : i \in {j \in 0 .. 7 : IncludedInLayout(j)}}

\* C10: at a draw the number of vertices packed is the minimum vertex_count
\* over the client arrays included in the layout; an enabled array left out
\* of the layout does not lower it.
C10_PackedCountIsMinOfIncluded ==
    (last[1] = "DrawArrays" /\ panicked = NoPanic /\ Len(commands) >= 2
     /\ client_arrays[VERTEX_ARRAY_IDX].enabled /\ IncludedCounts # {})
        => Len(LastDraw.data)
               = (CHOOSE n \in IncludedCounts : \A m \in IncludedCounts : n <= m)
                 * LastBind.pipeline.vertex_buffer.stride

(***************************************************************************)
(* SpecPack: position, normal and colour arrays of every item width        *)
(***************************************************************************)
PackArrayTypes == {"Vertex", "Normal", "Color"}

PackInputs ==
    {Pointer("Vertex", 3, "F32", 1), Pointer("Vertex", 3, "I16", 1),
     Pointer("Vertex", 2, "F64", 1), Pointer("Vertex", 1, "I32", 1),
     Pointer("Normal", 3, "F32", 1), Pointer("Normal", 3, "I8", 1),
     Pointer("Color", 4, "U8", 1), Pointer("Color", 2, "U16", 1),
     Pointer("Color", 1, "U32", 1), Pointer("Color", 1, "I32", 1),
     Pointer("Color", 3, "F32", 1)}

NextPack ==
    \/ \E b \in BOOLEAN, t \in PackArrayTypes : FeedSetClientState(b, t)
    \/ \E p \in PackInputs :
           FeedSetPointer(p.size, p.vec_count, p.array_type, p.item_type, p.data)
    \/ FeedDrawArrays("Tri", 0, 1)

SpecPack == Init /\ [][NextPack]_vars

\* the arrays a draw packs: enabled, supported and with data
Packed(i) ==
    /\ client_arrays[i].enabled
    /\ is_supported(get_client_array_type(i))
    /\ client_arrays[i].data # None

RECURSIVE SumElements(_)
SumElements(S) ==
    IF S = {} THEN 0
    ELSE LET i == CHOOSE x \in S : TRUE
         IN  client_arrays[i].element_count + SumElements(S \ {i})

\* bytes of a vertex when every source element is stored as one float32
Float32Stride == 4 * SumElements({i \in 0 .. 7 : Packed(i)})

\* the bytes the last draw holds for field f of vertex v (0-based)
FieldBytes(f, v, len) ==
    LET layout == LastBind.pipeline.vertex_buffer
        start == v * layout.stride + Unwrap(layout.fields[f]).offset
    IN  SubSeq(LastDraw.data, start + 1, start + len)

\* a draw has just been fed with a position array that has data
DrewWithPositions ==
    /\ last[1] = "DrawArrays"
    /\ Packed(VERTEX_ARRAY_IDX)

\* C11: a colour array of any integer type and of 1..4 elements is packed as
\* one float32 per source element without an assertion failure, and
\* float-typed colour data passes through unchanged.
C11_ColorsPackedAsFloats ==
    (DrewWithPositions /\ Packed(COLOR_ARRAY_IDX)
     /\ \A i \in {NORMAL_ARRAY_IDX, VERTEX_ARRAY_IDX} :
            Packed(i) => client_arrays[i].data_type = "F32")
        => LET color == client_arrays[COLOR_ARRAY_IDX]
           IN  /\ panicked = NoPanic
               /\ LastBind.pipeline.vertex_buffer.stride = Float32Stride
               /\ Len(LastDraw.data) = Float32Stride
               /\ color.data_type = "F32"
                      => FieldBytes("Color", 0, 4 * color.element_count)
                             = Unwrap(color.data)

\* C12: every source element of a position or normal array is stored as one
\* float32 (integers cast, float64 narrowed to 4 bytes, float32 copied), and
\* packing ends without an assertion failure for every source type.
C12_PositionsPackedAsFloats ==
    (DrewWithPositions /\ ~Packed(COLOR_ARRAY_IDX))
        => LET position == client_arrays[VERTEX_ARRAY_IDX]
           IN  /\ panicked = NoPanic
               /\ LastBind.pipeline.vertex_buffer.stride = Float32Stride
               /\ Len(LastDraw.data) = Float32Stride
               /\ position.data_type = "F32"
                      => FieldBytes("Position", 0, 4 * position.element_count)
                             = Unwrap(position.data)

(***************************************************************************)
(* The JNI shim and the thread's sandbox                                   *)
(***************************************************************************)
\* longest instruction list a List sandbox records
MaxInsns == 2

\* the loop copying the first byte of each group only
Deinterleave_firstByte(src, vec_byte_size, stride, vec_count) ==
    [k \in 1 .. (vec_byte_size * vec_count) |->
        src[((k - 1) \div vec_byte_size) * stride + 1]]

\* the copy loop of addPointerArray: byte k (1-based) of `out`
Deinterleave(src, vec_byte_size, stride, vec_count) ==
    [k \in 1 .. (vec_byte_size * vec_count) |->
        src[((k - 1) \div vec_byte_size) * stride + ((k - 1) % vec_byte_size) + 1]]

SetPointerInsn(size, vec_count, array_type, item_type, data) ==
    [op |-> "SetPointer", size |-> size, vec_count |-> vec_count,
     array_type |-> array_type, item_type |-> item_type, data |-> data]

\* addPointerArray: the instruction it hands to push_instruction (None when it
\* returns early) and its panic, if any
addPointerArray(size, stride, array_type, item_type, src) ==
    LET byte_length == Len(src)
        item_size == DataTypeSize(item_type)
        vec_byte_size == size * item_size
        stride1 == IF stride > 0 THEN stride ELSE vec_byte_size
        vec_count == byte_length \div stride1
    IN  IF ~is_supported(array_type) THEN [insn |-> None, panic |-> NoPanic]
        ELSE IF ~(size <= 4)
        THEN [insn |-> None, panic |-> "addPointerArray:assert_size"]
        ELSE IF stride1 = 0
        THEN [insn |-> None, panic |-> "addPointerArray:divide_by_zero"]
        ELSE IF \E vec_idx \in 0 .. (vec_count - 1) :
                    vec_idx * stride1 + vec_byte_size > byte_length
        THEN [insn |-> None, panic |-> "addPointerArray:src_slice_out_of_range"]
        ELSE [insn |-> Some(SetPointerInsn(size, vec_count, array_type, item_type,
                                Deinterleave(src, vec_byte_size, stride1, vec_count))),
              panic |-> NoPanic]

\* RenderInsnAssembler::new for a sandbox that holds no assembler any more
AsmReset ==
    /\ active_flags' = {}
    /\ active_matrix' = 0
    /\ matrix_stacks' = [i \in 0 .. 3 |-> MatrixStackNew]
    /\ active_mvp_cache' = None
    /\ active_unit' = 0
    /\ texture_units' = [u \in 0 .. (MAX_TEXTURE_UNITS - 1) |-> None]
    /\ active_color' = White
    /\ texcoord' = <<0, 0, 0, 0>>
    /\ client_arrays' = [i \in 0 .. 7 |-> ClientArrayNew]
    /\ commands' = <<>>

\* feed(&[insn]) of the assembler a sandbox holds
AsmFeed(insn) ==
    /\ insn.op = "SetPointer"
    /\ client_arrays' =
           [client_arrays EXCEPT ![get_client_array_index(insn.array_type)] =
               [@ EXCEPT !.element_count = insn.size, !.vertex_count = insn.vec_count,
                         !.data_type = insn.item_type, !.data = Some(insn.data)]]
    /\ UNCHANGED <<active_flags, active_matrix, matrix_stacks, active_mvp_cache,
                   active_unit, texture_units, active_color, texcoord, commands>>

\* RenderSandbox::push under push_instruction's guard
PushInstruction(insn) ==
    CASE render_sandbox.kind = "Assembler" ->
             /\ AsmFeed(insn)
             /\ UNCHANGED render_sandbox
      [] render_sandbox.kind = "List" ->
             /\ render_sandbox' = SandboxList(Append(render_sandbox.insns, insn))
             /\ UNCHANGED <<asmVars, commands>>
      [] render_sandbox.kind = "None" ->
             UNCHANGED <<render_sandbox, asmVars, commands>>

\* Drop for SpinGuard, also run when a panic unwinds past the guard
LockedAfterDrop == FALSE

\* a List sandbox has room for one more instruction
ListHasRoom ==
    render_sandbox.kind = "List" => Len(render_sandbox.insns) < MaxInsns

ShimAddPointerArray(size, stride, array_type, item_type, src) ==
    /\ panicked = NoPanic
    /\ ~locked
    /\ ListHasRoom
    /\ last' = <<"addPointerArray", size, stride, array_type, item_type, src>>
    /\ LET r == addPointerArray(size, stride, array_type, item_type, src)
       IN  IF r.insn = None
           THEN /\ panicked' = r.panic
                /\ UNCHANGED <<asmVars, commands, sandboxVars>>
           ELSE /\ PushInstruction(Unwrap(r.insn))
                /\ locked' = LockedAfterDrop
                /\ panicked' = NoPanic
    /\ UNCHANGED exceptSandbox

\* the test put_sandbox makes on the installed sandbox
SandboxIsNone_always(sb) == TRUE

SandboxIsNone(sb) == sb.kind = "None"

put_sandbox(sandbox) ==
    /\ panicked = NoPanic
    /\ ~locked
    /\ last' = <<"put_sandbox", sandbox>>
    /\ IF SandboxIsNone(render_sandbox)
       THEN /\ render_sandbox' = sandbox
            /\ panicked' = NoPanic
       ELSE /\ render_sandbox' = render_sandbox
            /\ panicked' = "put_sandbox:already_active"
    /\ locked' = LockedAfterDrop
    /\ UNCHANGED <<asmVars, commands, exceptSandbox>>

\* what std::mem::swap leaves in the guard when take_sandbox swaps `existing` out
SwappedIn_kept(existing) == existing

SwappedIn(existing) == SandboxNone

\* take_sandbox: the value returned is kept in the history
take_sandbox ==
    /\ panicked = NoPanic
    /\ ~locked
    /\ last' = <<"take_sandbox",
                 IF SandboxIsNone(render_sandbox) THEN None ELSE Some(render_sandbox)>>
    /\ render_sandbox' = SwappedIn(render_sandbox)
    /\ locked' = LockedAfterDrop
    /\ AsmReset
    /\ UNCHANGED <<panicked, exceptSandbox>>

ShimSizes == {0, 3, 5}
ShimStrides == {0, 2, 3, 4}
ShimItemTypes == {"U8", "U16"}
ShimByteLengths == {7, 12}
ShimArrayTypes == {"Color", "EdgeFlag"}
PutInputs == {SandboxList(<<>>), SandboxAssembler}

NextShim ==
    \/ \E sb \in PutInputs : put_sandbox(sb)
    \/ take_sandbox
    \/ \E size \in ShimSizes, stride \in ShimStrides, array_type \in ShimArrayTypes,
          item_type \in ShimItemTypes, len \in ShimByteLengths :
           ShimAddPointerArray(size, stride, array_type, item_type, MkData(len, 3))

SpecShim == Init /\ [][NextShim]_vars

\* the first n bytes of each t-byte group of src, in order
RECURSIVE Payloads(_, _, _)
Payloads(src, n, t) ==
    IF Len(src) < t THEN <<>>
    ELSE SubSeq(src, 1, n) \o Payloads(SubSeq(src, t + 1, Len(src)), n, t)

\* the call the history names is one C13 speaks of: a supported array kind,
\* 1..4 elements, a stride of 0 or at least the vector size, and a source
\* made of whole groups
WholeGroups(call) ==
    LET s == call[2]
        z == DataTypeSize(call[5])
        t == IF call[3] = 0 THEN s * z ELSE call[3]
    IN  /\ call[1] = "addPointerArray"
        /\ is_supported(call[4])
        /\ s \in 1 .. 4
        /\ t >= s * z
        /\ Len(call[6]) % t = 0

\* the SetPointer C13 expects of the call
ExpectedSetPointer(call) ==
    LET s == call[2]
        z == DataTypeSize(call[5])
        t == IF call[3] = 0 THEN s * z ELSE call[3]
    IN  SetPointerInsn(s, Len(call[6]) \div t, call[4], call[5],
                       Payloads(call[6], s * z, t))

\* C13: for a supported array kind, element count s, item size z and stride
\* t (0 meaning s*z) with t >= s*z and a source of whole t-byte groups,
\* addPointerArray pushes exactly one SetPointer whose vec_count is
\* byte_length / t and whose data is the first s*z bytes of each group.
C13_StridedSourceIsPacked ==
    [][(panicked = NoPanic /\ WholeGroups(last'))
        => /\ panicked' = NoPanic
           /\ render_sandbox.kind = "List"
                  => render_sandbox' =
                         SandboxList(Append(render_sandbox.insns, ExpectedSetPointer(last')))
           /\ render_sandbox.kind = "Assembler"
                  => client_arrays'[get_client_array_index(last'[4])].data
                         = Some(ExpectedSetPointer(last').data)]_vars

C13_Witness ==
    /\ WholeGroups(last)
    /\ last[2] = 3 /\ last[3] = 4 /\ last[5] = "U8" /\ Len(last[6]) = 12
    /\ panicked = NoPanic
    /\ render_sandbox.kind = "List"
    /\ Len(render_sandbox.insns) = MaxInsns
    /\ render_sandbox.insns[MaxInsns].vec_count = 3
    /\ Len(render_sandbox.insns[MaxInsns].data) = 9
    /\ render_sandbox.insns[MaxInsns].data # SubSeq(last[6], 1, 9)

\* C20: put_sandbox on a thread whose sandbox is not None panics, leaves the
\* installed sandbox in place and the lock released; put_sandbox on a thread
\* whose sandbox is None installs the given sandbox.
C20_PutSandboxFailsLoudly ==
    [][(panicked = NoPanic /\ last'[1] = "put_sandbox")
        => IF render_sandbox.kind # "None"
           THEN /\ panicked' # NoPanic
                /\ render_sandbox' = render_sandbox
                /\ ~locked'
           ELSE /\ panicked' = NoPanic
                /\ render_sandbox' = last'[2]
                /\ ~locked']_vars

C20_Witness ==
    /\ last = <<"put_sandbox", SandboxAssembler>>
    /\ panicked = "put_sandbox:already_active"
    /\ render_sandbox.kind = "List"
    /\ Len(render_sandbox.insns) > 0
    /\ ~locked

\* C18: in every state reached by SetClientState and SetPointer instructions
\* each enabled client array has data, of length
\* vertex_count * element_count * size_of(data_type).
C18_EnabledArraysHaveData ==
    \A i \in 0 .. 7 :
        client_arrays[i].enabled
            => /\ client_arrays[i].data # None
               /\ Len(Unwrap(client_arrays[i].data))
                      = client_arrays[i].vertex_count * client_arrays[i].element_count
                        * DataTypeSize(client_arrays[i].data_type)

(***************************************************************************)
(* SpecColor: flat colours, texturing and draws of float arrays            *)
(***************************************************************************)
ColorInputs == {White, <<1, 0, 0, 1>>}

ColorPointerInputs ==
    {Pointer("Vertex", 3, "F32", 1), Pointer("TexCoord", 2, "F32", 1),
     Pointer("TexCoord", 3, "F32", 1)}

NextColor ==
    \/ \E b \in BOOLEAN, t \in {"Vertex", "TexCoord"} : FeedSetClientState(b, t)
    \/ \E p \in ColorPointerInputs :
           FeedSetPointer(p.size, p.vec_count, p.array_type, p.item_type, p.data)
    \/ FeedEnable(GL_TEXTURE_2D)
    \/ FeedDisable(GL_TEXTURE_2D)
    \/ \E id \in TextureIds : FeedBindTexture(id)
    \/ \E c \in ColorInputs : FeedSetColor(c)
    \/ FeedDrawArrays("Tri", 0, 1)

SpecColor == Init /\ [][NextColor]_vars

\* the three conditions of the Texture colour mode, on the current state
TexturingApplies ==
    /\ GL_TEXTURE_2D \in active_flags
    /\ texture_units[active_unit] # None
    /\ client_arrays[TEXCOORD_ARRAY_IDX].enabled
    /\ client_arrays[TEXCOORD_ARRAY_IDX].data # None
    /\ TexCoordShapeOk(client_arrays[TEXCOORD_ARRAY_IDX])

\* C19: at a draw the colour mode of the emitted pipeline spec is Texture
\* exactly when TEXTURE_2D is enabled, the active unit has a bound texture and
\* a valid texcoord field is in the layout, and Flat(PushConstant) otherwise;
\* the colour push constant is the current flat colour exactly when the mode
\* is Flat(PushConstant) and absent otherwise.
C19_ColorModeFollowsTexturing ==
    [][(panicked = NoPanic /\ last'[1] = "DrawArrays" /\ Packed(VERTEX_ARRAY_IDX))
        => LET n == Len(commands)
           IN  /\ panicked' = NoPanic
               /\ Len(commands') = n + 2
               /\ commands'[n + 1].pipeline.color
                      = IF TexturingApplies THEN TextureMode ELSE FlatPushConstant
               /\ commands'[n + 1].push_constants.color
                      = IF TexturingApplies THEN None ELSE Some(active_color)]_vars

(***************************************************************************)
(* Shader source generation.  A source text is a sequence of lines and a   *)
(* line is a sequence of strings, the pieces the code concatenates.        *)
(***************************************************************************)
\* u32::to_string and {set} / {binding} in format! for the numbers in use
to_string(n) ==
    CASE n = 0 -> "0" [] n = 1 -> "1" [] n = 2 -> "2" [] n = 3 -> "3" [] n = 4 -> "4"

\* VectorDataType::F32(size)
VecF32(size) == [kind |-> "F32", size |-> size]

\* VertexInputSpec::as_vector: num_elements > 4 panics and every arm of the
\* match on data_type is todo!()
as_vector(field) ==
    IF field.num_elements > 4
    THEN [vec |-> None, panic |-> "as_vector:panic"]
    ELSE [vec |-> None, panic |-> "as_vector:todo"]

\* VectorDataType::as_strs
as_strs(var_type) ==
    LET prefix1 == CASE var_type.kind \in {"U8", "U16", "U32"} -> "uint"
                     [] var_type.kind \in {"I8", "I16", "I32"} -> "int"
                     [] var_type.kind = "F32" -> "float"
                     [] var_type.kind = "F64" -> "double"
        prefixN == CASE var_type.kind \in {"U8", "U16", "U32"} -> "uvec"
                     [] var_type.kind \in {"I8", "I16", "I32"} -> "ivec"
                     [] var_type.kind = "F32" -> "vec"
                     [] var_type.kind = "F64" -> "dvec"
    IN  IF var_type.size <= 1 THEN <<prefix1, "">>
        ELSE <<prefixN, to_string(var_type.size)>>

\* VectorDataType::get_widening_zeroes
get_widening_zeroes(var_type) ==
    CASE var_type.size = 1 -> ", 0.0, 0.0, 0.0"
      [] var_type.size = 2 -> ", 0.0, 0.0"
      [] var_type.size = 3 -> ", 0.0"
      [] OTHER -> ""

\* ShaderSpec::append_io: the line it appends
append_io(location, is_input, var_type, name) ==
    <<"layout(location = ", to_string(location),
      IF is_input THEN ") in " ELSE ") out ",
      as_strs(var_type)[1], as_strs(var_type)[2], " ", name, ";\n">>

append_input(location, var_type, name) == append_io(location, TRUE, var_type, name)
append_output(location, var_type, name) == append_io(location, FALSE, var_type, name)

\* a line of main() that assigns: "  <target> = <value>;\n", cut at the
\* target
assign(target, value) == <<"  ", target, " = ">> \o value \o <<";\n">>

\* the lines a condition contributes
When(cond, lines) == IF cond THEN lines ELSE <<>>

FlatUniform(set, binding) == [mode |-> "Flat", source |-> "Uniform", set |-> set,
                              binding |-> binding]
ArrayMode == [mode |-> "Array"]
MvpPushConstant == [mode |-> "MVP", source |-> "PushConstant"]
MvpUniform(set, binding) == [mode |-> "MVP", source |-> "Uniform", set |-> set,
                             binding |-> binding]

\* ShaderSpec::from(&DynamicPipelineSpec)
ShaderSpecFrom(spec) ==
    [vertex_buffer |-> spec.vertex_buffer, color |-> spec.color, matrix |-> spec.matrix]

\* get_vertex_shader_code for the vectors as_vector returned: position, and
\* the Options normal and extra (the colour mode's input)
VertexShaderText(spec, position, normal, extra) ==
    LET has_normal == spec.vertex_buffer.fields["Normal"] # None
    IN  <<<<"#version 450\n">>, append_input(0, position, "position_in")>>
        \o (IF has_normal THEN <<append_input(1, Unwrap(normal), "normal_in")>>
            ELSE <<>>)
        \o (IF spec.color.mode = "Texture"
            THEN <<append_input(2, Unwrap(extra), "texcoord_in")>> ELSE <<>>)
        \o (IF spec.color.mode = "Array"
            THEN <<append_input(2, Unwrap(extra), "colors_in")>> ELSE <<>>)
        \o <<<<"layout(push_constant) uniform constants {\n">>>>
        \o When(spec.matrix = MvpPushConstant, <<<<"  mat4 mvp\n">>>>)
        \o When(spec.color = FlatPushConstant, <<<<"  vec4 color;\n">>>>)
        \o <<<<"} PushConstants;\n">>>>
        \o When(spec.matrix.mode = "MVP" /\ spec.matrix.source = "Uniform",
                <<<<"layout (set = ", to_string(spec.matrix.set), ", binding = ",
                    to_string(spec.matrix.binding),
                    ") uniform MVPUniformData { mat4 matrix; } MVPUniform;\n">>>>)
        \o When(spec.color.mode = "Flat" /\ spec.color.source = "Uniform",
                <<<<"layout (set = ", to_string(spec.color.set), ", binding = ",
                    to_string(spec.color.binding),
                    ") uniform ColorUniformData { vec4 color; } ColorUniform;">>>>)
        \o When(spec.color.mode = "Array",
                <<append_output(0, VecF32(4), "frag_color_out")>>)
        \o When(spec.color.mode = "Texture",
                <<append_output(0, VecF32(2), "tex_coord_out")>>)
        \o When(has_normal, <<append_output(1, VecF32(3), "normal_out")>>)
        \o <<<<"void main() {\n">>>>
        \o When(spec.matrix = MvpPushConstant,
                <<assign("gl_Position",
                         <<"vec4(PushConstants.mvp * position_in",
                           get_widening_zeroes(position), ")">>)>>)
        \o When(spec.matrix.mode = "MVP" /\ spec.matrix.source = "Uniform",
                <<assign("gl_Position",
                         <<"vec4(MVPUniform.mvp * position_in",
                           get_widening_zeroes(position), ")">>)>>)
        \o When(spec.color = FlatPushConstant,
                <<assign("frag_color_out", <<"PushConstants.color">>)>>)
        \o When(spec.color.mode = "Flat" /\ spec.color.source = "Uniform",
                <<assign("frag_color_out", <<"ColorUniform.color">>)>>)
        \o When(spec.color.mode = "Texture", <<assign("texcoord_out", <<"texcoord_in">>)>>)
        \o When(spec.color.mode = "Array", <<assign("frag_color_out", <<"color_in">>)>>)
        \o When(has_normal, <<assign("normal_out", <<"normal_in">>)>>)
        \o <<<<"}\n">>>>

\* the first panic among the results rs (a sequence of [.., panic]), or NoPanic
RECURSIVE FirstPanic(_)
FirstPanic(rs) ==
    IF rs = <<>> THEN NoPanic
    ELSE IF Head(rs).panic # NoPanic THEN Head(rs).panic ELSE FirstPanic(Tail(rs))

\* a field of the layout turned into a vector: unwrap() and as_vector()
FieldVector(spec, f) ==
    IF spec.vertex_buffer.fields[f] = None
    THEN [vec |-> None, panic |-> "shader_code:unwrap_none"]
    ELSE as_vector(Unwrap(spec.vertex_buffer.fields[f]))

\* ShaderSpec::get_vertex_shader_code: the text, or the panic that ends it.
\* The matrix modes are the MVP ones; VP_M is not among the specs in use.
get_vertex_shader_code(spec) ==
    LET position == FieldVector(spec, "Position")
        normal == IF spec.vertex_buffer.fields["Normal"] = None
                  THEN [vec |-> None, panic |-> NoPanic]
                  ELSE FieldVector(spec, "Normal")
        extra == CASE spec.color.mode = "Texture" -> FieldVector(spec, "TexCoord")
                   [] spec.color.mode = "Array" -> FieldVector(spec, "Color")
                   [] OTHER -> [vec |-> None, panic |-> NoPanic]
        p == FirstPanic(<<position, normal, extra>>)
    IN  IF p # NoPanic THEN [text |-> None, panic |-> p]
        ELSE [text |-> Some(VertexShaderText(spec, Unwrap(position.vec),
                                             normal.vec, extra.vec)),
              panic |-> NoPanic]

\* ShaderSpec::get_fragment_shader_code
get_fragment_shader_code(spec) ==
    LET has_normal == spec.vertex_buffer.fields["Normal"] # None
        textured == spec.color.mode = "Texture"
    IN  [text |-> Some(
            <<<<"#version 450\n">>>>
            \o When(textured,
                    <<<<"layout (set = ", to_string(spec.color.set), ", binding = ",
                        to_string(spec.color.binding), ") uniform sampler2D sampler;\n">>>>)
            \o When(~textured, <<append_input(0, VecF32(4), "frag_color_in")>>)
            \o When(textured, <<append_input(0, VecF32(2), "tex_coord_in")>>)
            \o When(has_normal, <<append_input(1, VecF32(3), "normal_in")>>)
            \o <<append_output(0, VecF32(4), "frag_color_out")>>
            \o When(has_normal, <<append_input(1, VecF32(3), "normal_out")>>)
            \o <<<<"void main() {\n">>>>
            \o When(~textured, <<assign("frag_color_out", <<"frag_color_in">>)>>)
            \o When(textured,
                    <<assign("frag_color_out", <<"texture(sampler, tex_coord_in)">>)>>)
            \o When(has_normal, <<assign("normal_out", <<"normal_in">>)>>)
            \o <<<<"}\n">>>>),
         panic |-> NoPanic]

(***************************************************************************)
(* PipelineCompiler                                                        *)
(***************************************************************************)
\* most pipelines the model lets the compiler build
MaxPipelines == 2

\* the (set, binding) keys compile() puts in `descriptors`
DescriptorKeys(spec) ==
    (IF spec.color.mode \in {"Flat", "Texture"} /\ "set" \in DOMAIN spec.color
     THEN {<<spec.color.set, spec.color.binding>>} ELSE {})
    \cup (IF spec.matrix.mode = "MVP" /\ spec.matrix.source = "Uniform"
          THEN {<<spec.matrix.set, spec.matrix.binding>>} ELSE {})

MaxOf(S) == CHOOSE m \in S : \A x \in S : x <= m

\* the descriptor set layouts compile() creates: one per set in 0..max, the
\* range of `for set in 0..max` excluding max itself
SetLayouts(spec) ==
    LET keys == DescriptorKeys(spec)
        max == IF keys = {} THEN 0 ELSE MaxOf({k[1] : k \in keys})
    IN  [set \in 0 .. max - 1 |-> {k[2] : k \in {x \in keys : x[1] = set}}]

\* VectorDataType::as_format: only float vectors have a format
as_format(var_type) ==
    IF var_type.kind \in {"F32", "F64"} /\ var_type.size \in 1 .. 4
    THEN [vec |-> Some(<<var_type.kind, var_type.size>>), panic |-> NoPanic]
    ELSE [vec |-> None, panic |-> "as_format:panic"]

\* field.as_vector().as_format() of a field of the layout
FieldFormat(spec, f) ==
    LET v == FieldVector(spec, f)
    IN  IF v.panic # NoPanic THEN v ELSE as_format(Unwrap(v.vec))

\* the vertex input state of compile(): attribute -> [format, offset], or the
\* panic of an unwrap(), of as_vector() or of as_format()
VertexInputState(spec) ==
    LET f == spec.vertex_buffer.fields
        position == FieldFormat(spec, "Position")
        normal == IF f["Normal"] = None THEN [vec |-> None, panic |-> NoPanic]
                  ELSE FieldFormat(spec, "Normal")
        extra == CASE spec.color.mode = "Texture" -> FieldFormat(spec, "TexCoord")
                   [] spec.color.mode = "Array" -> FieldFormat(spec, "Color")
                   [] OTHER -> [vec |-> None, panic |-> NoPanic]
        p == FirstPanic(<<position, normal, extra>>)
        extraField == IF spec.color.mode = "Texture" THEN "TexCoord" ELSE "Color"
    IN  IF p # NoPanic THEN [attributes |-> None, panic |-> p]
        ELSE [attributes |-> Some(
                  [a \in {0} \cup (IF f["Normal"] # None THEN {1} ELSE {})
                         \cup (IF extra.vec # None THEN {2} ELSE {}) |->
                      CASE a = 0 -> [format |-> Unwrap(position.vec),
                                     offset |-> Unwrap(f["Position"]).offset]
                        [] a = 1 -> [format |-> Unwrap(normal.vec),
                                     offset |-> Unwrap(f["Normal"]).offset]
                        [] a = 2 -> [format |-> Unwrap(extra.vec),
                                     offset |-> Unwrap(f[extraField]).offset]]),
              panic |-> NoPanic]

\* a shader cache lookup: Some(module) when `shaders` holds the spec
ShaderCacheGet(shaders, sspec) ==
    IF \E e \in shaders : e.spec = sspec
    THEN Some((CHOOSE e \in shaders : e.spec = sspec).module)
    ELSE None

\* LruCache::put
ShaderCachePut(shaders, sspec, module) ==
    {e \in shaders : e.spec # sspec} \cup {[spec |-> sspec, module |-> module]}

\* compile_vertex_shader and compile_fragment_shader: a cache hit, or a module
\* built from `code` and put in the cache.  Both build from the text of
\* get_vertex_shader_code().
compile_shader(shaders, sspec, stage, code) ==
    LET hit == ShaderCacheGet(shaders, sspec)
    IN  IF hit # None
        THEN [module |-> hit, shaders |-> shaders, built |-> 0, panic |-> NoPanic]
        ELSE IF code.panic # NoPanic
        THEN [module |-> None, shaders |-> shaders, built |-> 0, panic |-> code.panic]
        ELSE LET module == [stage |-> stage, source |-> Unwrap(code.text)]
             IN  [module |-> Some(module),
                  shaders |-> ShaderCachePut(shaders, sspec, module),
                  built |-> 1, panic |-> NoPanic]

compile_vertex_shader(sspec) ==
    compile_shader(vertex_shaders, sspec, "Vertex", get_vertex_shader_code(sspec))

compile_fragment_shader(sspec) ==
    compile_shader(fragment_shaders, sspec, "Fragment", get_vertex_shader_code(sspec))

\* WeakValueHashMap::get: the pipeline cached under an equal spec, if a
\* strong reference to it is still held
CacheGet(spec) ==
    IF \E e \in cache : e.key = spec /\ e.value \in held
    THEN Some((CHOOSE e \in cache : e.key = spec /\ e.value \in held).value)
    ELSE None

\* PipelineCompiler::compile: the pipeline returned or the panic, and the
\* compiler's fields afterwards.  On a hit the cached pipeline is returned; on
\* a miss the vertex input state is built first, then the two shaders, then
\* the pipeline, which is cached and returned.
compile(spec) ==
    LET hit == CacheGet(spec)
        input == VertexInputState(spec)
        vert == compile_vertex_shader(ShaderSpecFrom(spec))
        frag == compile_fragment_shader(ShaderSpecFrom(spec))
        unchanged == [pipeline |-> None, panic |-> NoPanic, cache |-> cache,
                      vertex_shaders |-> vertex_shaders,
                      fragment_shaders |-> fragment_shaders, compiled |-> compiled]
        dyn_pipeline == [spec |-> spec, layout |-> SetLayouts(spec),
                         vertex_input |-> Unwrap(input.attributes),
                         vert_shader |-> Unwrap(vert.module),
                         frag_shader |-> Unwrap(frag.module),
                         serial |-> compiled.pipelines + 1]
    IN  IF hit # None THEN [unchanged EXCEPT !.pipeline = hit]
        ELSE IF input.panic # NoPanic THEN [unchanged EXCEPT !.panic = input.panic]
        ELSE IF vert.panic # NoPanic THEN [unchanged EXCEPT !.panic = vert.panic]
        ELSE IF frag.panic # NoPanic
        THEN [unchanged EXCEPT !.panic = frag.panic,
                               !.vertex_shaders = vert.shaders,
                               !.compiled.vertex = @ + vert.built]
        ELSE [pipeline |-> Some(dyn_pipeline), panic |-> NoPanic,
              cache |-> {e \in cache : e.key # spec}
                            \cup {[key |-> spec, value |-> dyn_pipeline]},
              vertex_shaders |-> vert.shaders,
              fragment_shaders |-> frag.shaders,
              compiled |-> [pipelines |-> compiled.pipelines + 1,
                            vertex |-> compiled.vertex + vert.built,
                            fragment |-> compiled.fragment + frag.built]]

\* a call of compile() whose caller keeps the pipeline it gets
Compile(spec) ==
    /\ panicked = NoPanic
    /\ compiled.pipelines < MaxPipelines
    /\ LET r == compile(spec)
       IN  /\ panicked' = r.panic
           /\ last' = <<"compile", spec, r.pipeline>>
           /\ cache' = r.cache
           /\ vertex_shaders' = r.vertex_shaders
           /\ fragment_shaders' = r.fragment_shaders
           /\ compiled' = r.compiled
           /\ held' = IF r.pipeline = None THEN held ELSE held \cup {Unwrap(r.pipeline)}
    /\ UNCHANGED <<asmVars, commands, exceptCompiler>>

\* the last strong reference to a pipeline is dropped; its cache entry can
\* no longer be upgraded
DropPipeline(p) ==
    /\ panicked = NoPanic
    /\ p \in held
    /\ held' = held \ {p}
    /\ last' = <<"drop", p.spec>>
    /\ UNCHANGED <<asmVars, commands, panicked, exceptCompiler, cache, vertex_shaders,
                   fragment_shaders, compiled>>

\* a call of get_vertex_shader_code / get_fragment_shader_code
VertexShaderCode(spec) ==
    /\ panicked = NoPanic
    /\ LET r == get_vertex_shader_code(ShaderSpecFrom(spec))
       IN  /\ panicked' = r.panic
           /\ last' = <<"get_vertex_shader_code", spec, r.text>>
    /\ UNCHANGED <<asmVars, commands, envVars>>

FragmentShaderCode(spec) ==
    /\ panicked = NoPanic
    /\ LET r == get_fragment_shader_code(ShaderSpecFrom(spec))
       IN  /\ panicked' = r.panic
           /\ last' = <<"get_fragment_shader_code", spec, r.text>>
    /\ UNCHANGED <<asmVars, commands, envVars>>

(***************************************************************************)
(* The pipeline compiler driven with specs of every shape                  *)
(***************************************************************************)
FieldSpec(data_type, num_elements, offset) ==
    Some([offset |-> offset, data_type |-> data_type, num_elements |-> num_elements])

\* vertex buffer layouts: position only, position and normal, position and
\* texcoord, position and colour, and one without a position
LayoutInputs ==
    { [fields |-> [NoFields EXCEPT !["Position"] = FieldSpec("F32", 3, 0)],
       stride |-> 12],
      [fields |-> [NoFields EXCEPT !["Position"] = FieldSpec("F32", 3, 0),
                                   !["Normal"] = FieldSpec("I8", 3, 12)],
       stride |-> 16],
      [fields |-> [NoFields EXCEPT !["Position"] = FieldSpec("F32", 3, 0),
                                   !["TexCoord"] = FieldSpec("F32", 2, 12)],
       stride |-> 20],
      [fields |-> [NoFields EXCEPT !["Position"] = FieldSpec("I16", 2, 0),
                                   !["Color"] = FieldSpec("U8", 4, 4)],
       stride |-> 8],
      [fields |-> [NoFields EXCEPT !["Color"] = FieldSpec("F32", 4, 0)],
       stride |-> 16] }

ColorModeInputs == {FlatPushConstant, FlatUniform(1, 0), TextureMode, ArrayMode}
MatrixModeInputs == {MvpPushConstant, MvpUniform(0, 0)}
RasterizationInputs ==
    {DefaultRasterization, [DefaultRasterization EXCEPT !.cull_mode = "None"]}
DrawModeInputs == {"Tri", "Lines"}

PipelineSpecs ==
    [draw_mode : DrawModeInputs, vertex_buffer : LayoutInputs, color : ColorModeInputs,
     matrix : MatrixModeInputs, rasterization : RasterizationInputs]

NextCompile ==
    \/ \E spec \in PipelineSpecs : Compile(spec)
    \/ \E spec \in PipelineSpecs : VertexShaderCode(spec)
    \/ \E spec \in PipelineSpecs : FragmentShaderCode(spec)

SpecCompile == Init /\ [][NextCompile]_vars

(***************************************************************************)
(* Properties of the pipeline compiler                                     *)
(***************************************************************************)
\* a step that is a call of compile()
CompileCall == last'[1] = "compile"

\* a step that is a call of compile() right after a call of compile() that
\* returned
SecondCompile == CompileCall /\ last[1] = "compile" /\ last[3] # None

\* C14: compile() returns a pipeline, and called a second time in a row with
\* an equal spec it returns the cached pipeline of the first call and builds
\* no vertex or fragment shader module.
C14_SecondCompileHitsCache ==
    [][CompileCall =>
          /\ last'[3] # None
          /\ (SecondCompile /\ last'[2] = last[2]
                => /\ last'[3] = last[3]
                   /\ compiled' = compiled)]_vars

\* the specs differ in rasterization.cull_mode and in nothing else
DifferOnlyInCullMode(s, t) ==
    /\ s.rasterization.cull_mode # t.rasterization.cull_mode
    /\ [s EXCEPT !.rasterization.cull_mode = t.rasterization.cull_mode] = t

\* C15: compiling a spec that differs from the spec compiled just before (and
\* still held) only in its cull mode yields a second cache entry next to the
\* first and builds a pipeline but no shader module: both modules come from
\* the shader caches and are the ones of the first pipeline.
C15_CullModeSharesShaders ==
    [][CompileCall =>
          /\ last'[3] # None
          /\ [key |-> last'[2], value |-> Unwrap(last'[3])] \in cache'
          /\ (SecondCompile /\ DifferOnlyInCullMode(last[2], last'[2])
                => /\ [key |-> last[2], value |-> Unwrap(last[3])] \in cache'
                   /\ Unwrap(last'[3]) # Unwrap(last[3])
                   /\ compiled'.pipelines = compiled.pipelines + 1
                   /\ compiled'.vertex = compiled.vertex
                   /\ compiled'.fragment = compiled.fragment
                   /\ Unwrap(last'[3]).vert_shader = Unwrap(last[3]).vert_shader
                   /\ Unwrap(last'[3]).frag_shader = Unwrap(last[3]).frag_shader)]_vars

\* C16: compile(s) returns a pipeline whose spec equals s, from the cache or
\* newly built, and every cache entry maps its key to a pipeline built for
\* that key.
C16_NoFalseCacheHit ==
    [][CompileCall =>
          /\ last'[3] # None
          /\ Unwrap(last'[3]).spec = last'[2]
          /\ \A e \in cache' : e.value.spec = e.key]_vars

\* a step that is a call of one of the two source generators
GeneratorCall == last'[1] \in {"get_vertex_shader_code", "get_fragment_shader_code"}

\* C17: each generator returns a text, and called again right away for an
\* equal spec it returns the identical text, whatever was called before.
C17_ShaderSourceIsDeterministic ==
    [][GeneratorCall =>
          /\ last'[3] # None
          /\ (last[1] = last'[1] /\ last[2] = last'[2] => last'[3] = last[3])]_vars

(***************************************************************************)
(* Properties of the sandbox, continued                                    *)
(***************************************************************************)
\* the result of the addPointerArray call the history names
CallResult(call) == addPointerArray(call[2], call[3], call[4], call[5], call[6])

\* C21: take_sandbox returns the installed sandbox (None when there is none)
\* and leaves the thread's sandbox None with the lock released; a put_sandbox
\* right after a take_sandbox installs its argument without a panic; a call
\* that pushes into a List sandbox appends exactly its instruction at the end
\* of the list, and a call that pushes nothing leaves the list as it was.
C21_TakeThenPutRecordsInOrder ==
    [][panicked = NoPanic =>
          /\ last'[1] = "take_sandbox"
                => /\ render_sandbox' = SandboxNone
                   /\ ~locked'
                   /\ panicked' = NoPanic
                   /\ last'[2] = IF render_sandbox = SandboxNone THEN None
                                 ELSE Some(render_sandbox)
          /\ (last[1] = "take_sandbox" /\ last'[1] = "put_sandbox")
                => /\ panicked' = NoPanic
                   /\ render_sandbox' = last'[2]
          /\ (last'[1] = "addPointerArray" /\ render_sandbox.kind = "List")
                => /\ render_sandbox'.kind = "List"
                   /\ render_sandbox'.insns =
                          IF CallResult(last').insn = None THEN render_sandbox.insns
                          ELSE Append(render_sandbox.insns,
                                      Unwrap(CallResult(last').insn))]_vars

\* a take_sandbox has returned a List sandbox that recorded two different
\* instructions, and the thread's sandbox is None
C21_Witness ==
    /\ last[1] = "take_sandbox"
    /\ last[2] # None
    /\ Unwrap(last[2]).kind = "List"
    /\ Len(Unwrap(last[2]).insns) >= 2
    /\ Unwrap(last[2]).insns[1] # Unwrap(last[2]).insns[2]
    /\ render_sandbox = SandboxNone
    /\ panicked = NoPanic

(***************************************************************************)
(* CommandRecorder: recording contexts, each fed by its own thread, that   *)
(* share one PipelineCompiler behind Ref (an Arc<RwLock<..>>).  A thread   *)
(* that panics stops; the others go on.                                    *)
(***************************************************************************)
\* most commands fed to one recorder
MaxFed == 2

\* size_of_val(mvp): a TMat4<f32>
MVP_SIZE == 64

Feeds(rec) == rec.at = "idle" /\ Len(rec.fed) < MaxFed

\* the recorder after a panic of its thread while it was fed cmd
RecorderPanicked(rec, cmd, panic) ==
    [rec EXCEPT !.at = "panicked", !.panic = panic, !.bind = None,
                !.fed = Append(@, cmd)]

\* the part of feed() after the pipeline is settled: the push constants of the
\* Bind are written unless they equal the ones kept with the active pipeline
\* (`field` names the constant a builder entry carries)
WithPushConstants(rec, cmd) ==
    LET active == Unwrap(rec.active_dyn_pipeline)
        pcs == cmd.push_constants
        mvp == IF pcs.mvp # None
               THEN <<[call |-> "push_constants", layout |-> active.pipeline.layout,
                       offset |-> 0, field |-> "mvp", value |-> Unwrap(pcs.mvp)]>>
               ELSE <<>>
        offset == IF pcs.mvp # None THEN MVP_SIZE ELSE 0
        color == IF pcs.color # None
                 THEN <<[call |-> "push_constants", layout |-> active.pipeline.layout,
                         offset |-> offset, field |-> "color",
                         value |-> Unwrap(pcs.color)]>>
                 ELSE <<>>
    IN  [rec EXCEPT !.builder = IF active.pc # pcs THEN @ \o mvp \o color ELSE @,
                    !.at = "idle", !.bind = None, !.fed = Append(@, cmd)]

\* feed(BindDynamicGraphicsPipeline) up to the write guard: a Bind of the
\* active spec needs no compiler; any other Bind takes the write lock, which
\* is handed out when nobody holds it and fails when it is poisoned
RecBindStart(r, cmd) ==
    LET rec == recorders[r]
        different_pipeline ==
            IF rec.active_dyn_pipeline # None
            THEN cmd.pipeline # Unwrap(rec.active_dyn_pipeline).pipeline.spec
            ELSE TRUE
    IN  /\ panicked = NoPanic
        /\ Feeds(rec)
        /\ last' = <<"feed", r, cmd>>
        /\ IF ~different_pipeline
           THEN /\ recorders' = [recorders EXCEPT ![r] = WithPushConstants(rec, cmd)]
                /\ UNCHANGED compiler_lock
           ELSE /\ compiler_lock.writer = None
                /\ IF compiler_lock.poisoned
                   THEN /\ recorders' = [recorders EXCEPT ![r] =
                                RecorderPanicked(rec, cmd, "write:poisoned")]
                        /\ UNCHANGED compiler_lock
                   ELSE /\ recorders' = [recorders EXCEPT ![r] =
                                [rec EXCEPT !.at = "compile", !.bind = Some(cmd)]]
                        /\ compiler_lock' = [compiler_lock EXCEPT !.writer = Some(r)]
        /\ UNCHANGED <<asmVars, commands, panicked, textures, spin, sandboxVars, storageVars, compilerVars>>

\* the pipelines the recorders hold
HeldBy(recs) ==
    {Unwrap(recs[q].active_dyn_pipeline).pipeline :
        q \in {x \in Recorders : recs[x].active_dyn_pipeline # None}}

\* feed(BindDynamicGraphicsPipeline) from compile() under the write guard to
\* its end.  The guard is dropped after compile(); a panic inside poisons the
\* lock.
RecBindCompile(r) ==
    LET rec == recorders[r]
        cmd == Unwrap(rec.bind)
        res == compile(cmd.pipeline)
        compiled_pipeline == Unwrap(res.pipeline)
        bound == [rec EXCEPT
                    !.active_dyn_pipeline =
                        Some([pipeline |-> compiled_pipeline, pc |-> NoPushConstants]),
                    !.builder = Append(@, [call |-> "bind_pipeline_graphics",
                                           pipeline |-> compiled_pipeline])]
    IN  /\ panicked = NoPanic
        /\ rec.at = "compile"
        /\ compiler_lock.writer = Some(r)
        /\ last' = <<"compile_done", r, cmd>>
        /\ cache' = res.cache
        /\ vertex_shaders' = res.vertex_shaders
        /\ fragment_shaders' = res.fragment_shaders
        /\ compiled' = res.compiled
        /\ IF res.panic # NoPanic
           THEN /\ recorders' = [recorders EXCEPT ![r] =
                        RecorderPanicked(rec, cmd, res.panic)]
                /\ compiler_lock' = [writer |-> None, poisoned |-> TRUE]
           ELSE /\ recorders' = [recorders EXCEPT ![r] = WithPushConstants(bound, cmd)]
                /\ compiler_lock' = [compiler_lock EXCEPT !.writer = None]
        /\ held' = HeldBy(recorders')
        /\ UNCHANGED <<asmVars, commands, panicked, textures, spin, sandboxVars, storageVars>>

\* feed(Draw): a vertex buffer with the data is bound and the draw recorded
RecDraw(r, cmd) ==
    LET rec == recorders[r]
    IN  /\ panicked = NoPanic
        /\ Feeds(rec)
        /\ last' = <<"feed", r, cmd>>
        /\ recorders' = [recorders EXCEPT ![r] =
               [rec EXCEPT !.builder = @ \o
                               <<[call |-> "bind_vertex_buffers", data |-> cmd.data],
                                 [call |-> "draw", vertex_count |-> cmd.vertex_count,
                                  first_vertex |-> cmd.start_vertex]>>,
                           !.fed = Append(@, cmd)]]
        /\ UNCHANGED <<asmVars, commands, panicked, textures, spin, sandboxVars, storageVars, compilerVars,
                       compiler_lock>>

\* feed(ClearDepth)
RecClearDepth(r) ==
    LET rec == recorders[r]
    IN  /\ panicked = NoPanic
        /\ Feeds(rec)
        /\ last' = <<"feed", r, ClearDepthCmd>>
        /\ recorders' = [recorders EXCEPT ![r] =
               [rec EXCEPT !.builder = Append(@, [call |-> "clear_attachments"]),
                           !.fed = Append(@, ClearDepthCmd)]]
        /\ UNCHANGED <<asmVars, commands, panicked, textures, spin, sandboxVars, storageVars, compilerVars,
                       compiler_lock>>

\* the commands fed: Binds of the spec of a position-only draw and of its
\* cull-mode sibling, with and without push constants, draws and clears
RecSpecInputs ==
    {s \in PipelineSpecs :
        /\ s.draw_mode = "Tri"
        /\ s.vertex_buffer.stride = 12
        /\ s.color = FlatPushConstant
        /\ s.matrix = MvpPushConstant}

RecPushConstantInputs ==
    {[mvp |-> Some(Identity), color |-> Some(White)], NoPushConstants}

RecBindInputs == {BindCmd(s, pc) : s \in RecSpecInputs, pc \in RecPushConstantInputs}
RecDrawInputs == {DrawCmd(0, 3, MkData(4, 1)), DrawCmd(1, 2, MkData(4, 2))}

NextRecord ==
    \/ \E r \in Recorders, cmd \in RecBindInputs : RecBindStart(r, cmd)
    \/ \E r \in Recorders : RecBindCompile(r)
    \/ \E r \in Recorders, cmd \in RecDrawInputs : RecDraw(r, cmd)
    \/ \E r \in Recorders : RecClearDepth(r)

SpecRecord == Init /\ [][NextRecord]_vars

(***************************************************************************)
(* Properties of the recorders                                             *)
(***************************************************************************)
\* the positions in fed of the Binds, and the most recent Bind fed
BindsFed(rec) ==
    {i \in DOMAIN rec.fed : rec.fed[i].kind = "BindDynamicGraphicsPipeline"}

LastBindFed(rec) == rec.fed[CHOOSE i \in BindsFed(rec) : \A j \in BindsFed(rec) : j <= i]

\* the recorders inside compile()
Compiling == {r \in Recorders : recorders[r].at = "compile"}

\* C22: no two recorders are inside compile() at the same time; a recorder
\* whose Bind has been fed holds a pipeline whose spec is the one of that
\* Bind, and the cache holds exactly one entry for that spec.
C22_CompileIsExclusive ==
    /\ Cardinality(Compiling) <= 1
    /\ \A r \in Recorders :
          (recorders[r].at # "compile" /\ BindsFed(recorders[r]) # {})
            => /\ recorders[r].active_dyn_pipeline # None
               /\ Unwrap(recorders[r].active_dyn_pipeline).pipeline.spec
                      = LastBindFed(recorders[r]).pipeline
               /\ Cardinality({e \in cache :
                                  e.key = LastBindFed(recorders[r]).pipeline}) = 1

(***************************************************************************)
(* Properties of the vertex layout                                         *)
(***************************************************************************)
\* the vertex layouts of the Binds in the queue
LayoutsBound ==
    {commands[k].pipeline.vertex_buffer :
        k \in {i \in DOMAIN commands : commands[i].kind = "BindDynamicGraphicsPipeline"}}

CanonicalOrder == <<"Position", "Normal", "Color", "TexCoord">>

\* C23: in the layout of every draw the offsets of the included fields
\* increase in the order position, normal, color, texcoord, so an included
\* position is at offset 0.
C23_FieldsInCanonicalOrder ==
    \A l \in LayoutsBound :
        /\ \A a, b \in DOMAIN CanonicalOrder :
              (a < b /\ l.fields[CanonicalOrder[a]] # None
                     /\ l.fields[CanonicalOrder[b]] # None)
                => Unwrap(l.fields[CanonicalOrder[a]]).offset
                       < Unwrap(l.fields[CanonicalOrder[b]]).offset
        /\ l.fields["Position"] # None => Unwrap(l.fields["Position"]).offset = 0

(***************************************************************************)
(* SpecLayout: client arrays of the four supported kinds, of float and of  *)
(* integer types and of 1 to 4 elements, with and without texturing        *)
(***************************************************************************)
LayoutPointerInputs ==
    {Pointer("Vertex", 3, "F32", 1), Pointer("Vertex", 4, "I16", 1),
     Pointer("Normal", 3, "I8", 1),
     Pointer("Color", 3, "F32", 1), Pointer("Color", 4, "U8", 1),
     Pointer("Color", 1, "U32", 1),
     Pointer("TexCoord", 2, "F32", 1), Pointer("TexCoord", 2, "F64", 1),
     Pointer("TexCoord", 3, "F32", 1), Pointer("TexCoord", 2, "I16", 1)}

NextLayout ==
    \/ \E b \in BOOLEAN, t \in {"Vertex", "Normal", "Color", "TexCoord"} :
           FeedSetClientState(b, t)
    \/ \E p \in LayoutPointerInputs :
           FeedSetPointer(p.size, p.vec_count, p.array_type, p.item_type, p.data)
    \/ FeedEnable(GL_TEXTURE_2D)
    \/ FeedDisable(GL_TEXTURE_2D)
    \/ \E id \in TextureIds : FeedBindTexture(id)
    \/ FeedDrawArrays("Tri", 0, 1)

SpecLayout == Init /\ [][NextLayout]_vars

\* the bytes of a field of a layout: offset .. offset + size * elements - 1
FieldRange(l, f) ==
    LET field == Unwrap(l.fields[f])
    IN  field.offset ..
            (field.offset + DataTypeSize(field.data_type) * field.num_elements - 1)

Included(l) == {f \in VertexInputTypes : l.fields[f] # None}

\* C24: whenever the layout can be computed, its stride and every field
\* offset are multiples of 4, the fields' byte ranges are disjoint and end at
\* or before the stride; and the buffer a draw packs is vertex_count * stride
\* bytes long.
C24_LayoutIsAlignedAndDisjoint ==
    /\ [](LET l == get_vertex_buffer_layout
          IN  l.panic = NoPanic
                => /\ l.stride % 4 = 0
                   /\ \A f \in Included(l) :
                         /\ Unwrap(l.fields[f]).offset % 4 = 0
                         /\ \A b \in FieldRange(l, f) : b < l.stride
                   /\ \A f, g \in Included(l) :
                         f # g => FieldRange(l, f) \cap FieldRange(l, g) = {})
    /\ [][Len(commands') = Len(commands) + 2
            => Len(commands'[Len(commands') ].data)
                   = get_vertex_buffer_layout.vertex_count
                     * commands'[Len(commands') - 1].pipeline.vertex_buffer.stride]_vars

\* a draw of 3 x float32 colours and 3 x float32 positions: stride 24, fields
\* at 0 and 12, 24 bytes for the one vertex
C24_Witness ==
    /\ last[1] = "DrawArrays"
    /\ panicked = NoPanic
    /\ Len(commands) = 2
    /\ commands[1].pipeline.vertex_buffer.stride = 24
    /\ {Unwrap(commands[1].pipeline.vertex_buffer.fields[f]).offset :
            f \in Included(commands[1].pipeline.vertex_buffer)} = {0, 12}
    /\ Len(commands[2].data) = 24

\* the texcoord array is enabled and has data
TexCoordOffered ==
    /\ client_arrays[TEXCOORD_ARRAY_IDX].enabled
    /\ client_arrays[TEXCOORD_ARRAY_IDX].data # None

\* TEXTURE_2D is on, the active unit has a texture and the array is a float
\* 2-vector
TexCoordWanted ==
    /\ is_enabled(GL_TEXTURE_2D)
    /\ get_active_texture # None
    /\ client_arrays[TEXCOORD_ARRAY_IDX].data_type \in {"F32", "F64"}
    /\ client_arrays[TEXCOORD_ARRAY_IDX].element_count = 2

\* the layout has the texcoord field exactly when it should
TexCoordIncludedWhenWanted(l) ==
    (l.fields["TexCoord"] # None) <=> (TexCoordOffered /\ TexCoordWanted)

\* the texture-index field is there exactly with the texcoord field, a single
\* U16 at the next multiple of 4 after the texcoord data
TexIndexFollowsTexCoord(l) ==
    /\ (l.fields["TexIndex"] # None) <=> (l.fields["TexCoord"] # None)
    /\ l.fields["TexCoord"] # None
          => LET tc == Unwrap(l.fields["TexCoord"])
                 ti == Unwrap(l.fields["TexIndex"])
             IN  /\ ti.data_type = "U16"
                 /\ ti.num_elements = 1
                 /\ ti.offset = AlignTo(tc.offset + DataTypeSize(tc.data_type)
                                                    * tc.num_elements, 4)

\* the lookup assemble_buffer makes for the texcoord slot finds a slot
TexIndexSlotFound(l) ==
    l.fields["TexCoord"] # None => FindTexIndex(l.layout) # {}

\* C25: an enabled texcoord array with data is in the layout exactly when
\* TEXTURE_2D is enabled, the active unit has a bound texture and the array is
\* a float 2-vector; exactly then a single U16 texture-index field follows it,
\* 4-byte aligned; and the packer finds the texture-index slot.
C25_TexIndexFollowsAndIsFound ==
    LET l == get_vertex_buffer_layout
    IN  l.panic = NoPanic
          => /\ TexCoordIncludedWhenWanted(l)
             /\ TexIndexFollowsTexCoord(l)
             /\ TexIndexSlotFound(l)

(***************************************************************************)
(* Properties of the pipeline compiler, continued                          *)
(***************************************************************************)
\* the module is built from the text the generator returns
BuiltFrom(module, code) == code.text # None /\ module.source = Unwrap(code.text)

\* C26: compile() returns a pipeline whose fragment module is built from the
\* fragment source of the spec and whose vertex module is built from its
\* vertex source, and the shader caches hold these modules for the spec.
C26_ModulesBuiltFromOwnSource ==
    [][CompileCall =>
          /\ last'[3] # None
          /\ LET pipeline == Unwrap(last'[3])
                 sspec == ShaderSpecFrom(last'[2])
             IN  /\ BuiltFrom(pipeline.frag_shader, get_fragment_shader_code(sspec))
                 /\ BuiltFrom(pipeline.vert_shader, get_vertex_shader_code(sspec))
                 /\ [spec |-> sspec, module |-> pipeline.frag_shader]
                        \in fragment_shaders'
                 /\ [spec |-> sspec, module |-> pipeline.vert_shader]
                        \in vertex_shaders']_vars

\* C27: the descriptor set layouts compile() builds for a spec include one
\* for every set index a uniform or texture binding of the spec names, and
\* that one holds the binding.
C27_EveryReferencedSetHasLayout ==
    [][CompileCall =>
          \A k \in DescriptorKeys(last'[2]) :
              /\ k[1] \in DOMAIN SetLayouts(last'[2])
              /\ k[2] \in SetLayouts(last'[2])[k[1]]]_vars

(***************************************************************************)
(* Properties of the recorders, continued                                  *)
(***************************************************************************)
\* the builder entries that bind a pipeline, and the ones that write `field`
PipelineBinds(builder) ==
    {i \in DOMAIN builder : builder[i].call = "bind_pipeline_graphics"}

Writes(builder, field) ==
    {i \in DOMAIN builder :
        builder[i].call = "push_constants" /\ builder[i].field = field}

Latest(S) == CHOOSE i \in S : \A j \in S : j <= i

\* the command buffer of rec is set up for the most recent Bind fed: the
\* pipeline bound last was compiled for its spec and each push constant it
\* carries was the last value written for that constant
AppliedLastBind(rec) ==
    LET bind == LastBindFed(rec)
        b == rec.builder
    IN  /\ PipelineBinds(b) # {}
        /\ b[Latest(PipelineBinds(b))].pipeline.spec = bind.pipeline
        /\ \A field \in {"mvp", "color"} :
              bind.push_constants[field] # None
                => /\ Writes(b, field) # {}
                   /\ b[Latest(Writes(b, field))].value
                          = Unwrap(bind.push_constants[field])

\* a step that feeds recorder r a Bind of the spec of the Bind fed just before
RebindsSameSpec(r) ==
    /\ last'[1] = "feed" /\ last'[2] = r
    /\ last'[3].kind = "BindDynamicGraphicsPipeline"
    /\ recorders[r].fed # <<>>
    /\ recorders[r].fed[Len(recorders[r].fed)].kind = "BindDynamicGraphicsPipeline"
    /\ recorders[r].fed[Len(recorders[r].fed)].pipeline = last'[3].pipeline

\* C28: between commands, a recorder that has been fed a Bind has the
\* pipeline of the most recent Bind bound and that Bind's push constants
\* written, so every Draw recorded after it uses them; a Bind that repeats
\* the spec of the Bind before it neither calls compile() nor binds again.
C28_DrawsUseLatestBind ==
    /\ [](\A r \in Recorders :
            (recorders[r].at # "compile" /\ BindsFed(recorders[r]) # {})
              => AppliedLastBind(recorders[r]))
    /\ [][\A r \in Recorders :
            RebindsSameSpec(r)
              => /\ recorders'[r].at = "idle"
                 /\ PipelineBinds(recorders'[r].builder)
                        = PipelineBinds(recorders[r].builder)
                 /\ compiled' = compiled]_vars

(***************************************************************************)
(* Properties of the matrix mode                                           *)
(***************************************************************************)
\* the stack a matrix mode names
StackNamedBy(mode) ==
    CASE mode = "ModelView" -> MODELVIEW_MATRIX_IDX
      [] mode = "Projection" -> PROJECTION_MATRIX_IDX
      [] mode = "Texture" -> TEXTURE_MATRIX_IDX
      [] mode = "Color" -> COLOR_MATRIX_IDX

\* active_matrix is the stack of the most recent MatrixMode: it starts at the
\* model-view stack, a MatrixMode sets it to the stack it names and no other
\* instruction changes it
ActiveMatrixFollowsMatrixMode ==
    /\ last = <<"new">> => active_matrix = MODELVIEW_MATRIX_IDX
    /\ [][IF last'[1] = "MatrixMode"
             THEN active_matrix' = StackNamedBy(last'[2])
             ELSE active_matrix' = active_matrix]_vars

\* C29: a matrix mutation changes only the stack selected by the most recent
\* MatrixMode (the model-view stack when none was fed) and leaves the other
\* three as they were; a MatrixMode changes no stack, keeps the MVP memo and
\* pushes no command.
C29_MutationsTouchOnlySelectedStack ==
    /\ ActiveMatrixFollowsMatrixMode
    /\ [][/\ last'[1] \in MatrixMutations
             => \A i \in (0 .. 3) \ {active_matrix} :
                   matrix_stacks'[i] = matrix_stacks[i]
          /\ last'[1] = "MatrixMode"
             => /\ matrix_stacks' = matrix_stacks
                /\ active_mvp_cache' = active_mvp_cache
                /\ commands' = commands]_vars

\* a mutation has changed the texture stack after a draw memoized the MVP
\* matrix and a MatrixMode selected the texture stack: the model-view and
\* projection stacks and the memo are as the draw left them
C29_Witness ==
    /\ last[1] \in MatrixMutations
    /\ active_matrix = TEXTURE_MATRIX_IDX
    /\ matrix_stacks[TEXTURE_MATRIX_IDX] # MatrixStackNew
    /\ matrix_stacks[MODELVIEW_MATRIX_IDX] = MatrixStackNew
    /\ matrix_stacks[PROJECTION_MATRIX_IDX] = MatrixStackNew
    /\ active_mvp_cache # None
    /\ commands # <<>>

(***************************************************************************)
(* SpecStorage: TextureStorage::allocate, TextureStorage::free and the     *)
(* drop of a TextureStorageHandle                                          *)
(***************************************************************************)
MaxHandles == 4
MaxArrays == 4

\* the arrays the loop of allocate() pops slots from: the ones of the wanted
\* size and mipmapping with at least `count` free slots
Qualifying(width, height, count, mipmapped) ==
    {id \in DOMAIN arrays :
        /\ arrays[id].size = <<width, height>>
        /\ arrays[id].mipmapped = mipmapped
        /\ Cardinality(arrays[id].free) >= count}

StorageStep(call) ==
    /\ panicked = NoPanic
    /\ last' = call
    /\ UNCHANGED <<asmVars, commands, exceptStorage>>

\* allocate(): the loop visits every array of the HashMap, in an order the
\* hasher fixes, pops `count` slots from each qualifying one and overwrites
\* `slots` each time, so the handle is made of the slots of the qualifying
\* array visited last (`chosen`); without a qualifying array a new one is made
StorageAllocate(width, height, count, mipmapped) ==
    /\ Len(handles) < MaxHandles
    /\ LET qualifying == Qualifying(width, height, count, mipmapped)
           args == [width |-> width, height |-> height, count |-> count,
                    mipmapped |-> mipmapped]
       IN  IF qualifying # {}
           THEN \E chosen \in qualifying :
                  LET slots == PopFirst(arrays[chosen].free, count)
                  IN  /\ StorageStep(<<"allocate", args>>)
                      /\ arrays' = [id \in DOMAIN arrays |->
                            IF id \in qualifying
                            THEN [arrays[id] EXCEPT !.free =
                                    @ \ SlotsOf([slots |-> PopFirst(@, count)])]
                            ELSE arrays[id]]
                      /\ handles' = Append(handles,
                            [indices |-> [array |-> chosen, slots |-> slots],
                             live |-> TRUE])
                      /\ UNCHANGED <<next_array, panicked>>
           ELSE /\ next_array < MaxArrays
                /\ StorageStep(<<"allocate", args>>)
                /\ LET array == TextureArrayNew(next_array, width, height,
                                                mipmapped, count)
                       slots == PopFirst(array.free, count)
                   IN  IF array.layer_count < count
                       THEN /\ panicked' = "create_texture_array:layers"
                            /\ UNCHANGED storageVars
                       ELSE /\ arrays' = (next_array :>
                                 [array EXCEPT !.free = @ \ SlotsOf([slots |-> slots])])
                                 @@ arrays
                            /\ next_array' = next_array + 1
                            /\ handles' = Append(handles,
                                 [indices |-> [array |-> next_array, slots |-> slots],
                                  live |-> TRUE])
                            /\ UNCHANGED panicked

\* Drop for TextureStorageHandle: free.lock().extend(slots)
DropHandle(h) ==
    /\ handles[h].live
    /\ StorageStep(<<"drop", h>>)
    /\ arrays' = [arrays EXCEPT ![handles[h].indices.array].free =
                     @ \cup SlotsOf(handles[h].indices)]
    /\ handles' = [handles EXCEPT ![h].live = FALSE]
    /\ UNCHANGED <<next_array, panicked>>

\* TextureStorage::free with a clone of the indices of handle h
StorageFree(h) ==
    /\ StorageStep(<<"free", h>>)
    /\ arrays' = [arrays EXCEPT ![handles[h].indices.array].free =
                     @ \cup SlotsOf(handles[h].indices)]
    /\ UNCHANGED <<next_array, handles, panicked>>

TextureSizes == {<<128, 128>>, <<512, 512>>}
TextureCounts == {1, 2}

\* the handle the storage keeps for itself is never dropped by a caller
NextStorage ==
    \/ \E size \in TextureSizes, count \in TextureCounts :
          StorageAllocate(size[1], size[2], count, TRUE)
    \/ \E h \in 2 .. Len(handles) : DropHandle(h)
    \/ \E h \in 2 .. Len(handles) : StorageFree(h)

SpecStorage == Init /\ [][NextStorage]_vars

\* C30: dropping a handle adds exactly its slots to the free set of the
\* array they were allocated from and changes no other free set, and a slot
\* returned this way is handed out again: an allocate that takes a slot out
\* of a free set puts it in the handle it returns.
C30_DroppedSlotsAreHandedOutAgain ==
    [][/\ last'[1] = "drop"
          => LET indices == handles[last'[2]].indices
             IN  /\ arrays'[indices.array].free
                        = arrays[indices.array].free \cup SlotsOf(indices)
                 /\ \A id \in DOMAIN arrays \ {indices.array} :
                        arrays'[id] = arrays[id]
       /\ last'[1] = "allocate"
          => LET handed == handles'[Len(handles')].indices
             IN  \A id \in DOMAIN arrays :
                   \A slot \in arrays[id].free \ arrays'[id].free :
                       id = handed.array /\ slot \in SlotsOf(handed)]_vars

\* the live handles that hold `slot` of array `id`
Owners(id, slot) ==
    {h \in DOMAIN handles :
        /\ handles[h].live
        /\ handles[h].indices.array = id
        /\ slot \in SlotsOf(handles[h].indices)}

\* the arrays whose free set a step has made smaller
ArraysTakenFrom ==
    {id \in DOMAIN arrays : arrays[id].free \ arrays'[id].free # {}}

\* C31: every slot of every array is either in the array's free set or held
\* by exactly one live handle, never both and never neither, and an allocate
\* takes slots out of the free set of at most one array.
C31_SlotsFreeOrOwnedOnce ==
    /\ [](\A id \in DOMAIN arrays :
            \A slot \in 0 .. (arrays[id].layer_count - 1) :
               IF slot \in arrays[id].free
               THEN Owners(id, slot) = {}
               ELSE Cardinality(Owners(id, slot)) = 1)
    /\ [][last'[1] = "allocate" => Cardinality(ArraysTakenFrom) <= 1]_vars

(***************************************************************************)
(* Properties of the draw range                                            *)
(***************************************************************************)
\* the Draw commands of the queue; draw_arrays() pushes each one right after
\* the Bind that carries the layout of its buffer
DrawsQueued ==
    {i \in DOMAIN commands :
        /\ commands[i].kind = "Draw"
        /\ i > 1
        /\ commands[i - 1].kind = "BindDynamicGraphicsPipeline"}

\* the vertices in the buffer of the Draw at i: buffer length / stride
VerticesCarried(i) ==
    LET stride == commands[i - 1].pipeline.vertex_buffer.stride
    IN  IF stride = 0 THEN 0 ELSE Len(commands[i].data) \div stride

\* C32: for every Draw in the queue, start_vertex + vertex_count does not
\* exceed the number of vertices in the packed buffer the Draw carries.
C32_DrawRangeWithinBuffer ==
    \A i \in DrawsQueued :
        commands[i].start_vertex + commands[i].vertex_count <= VerticesCarried(i)

(***************************************************************************)
(* SpecTextures: the TextureManager's ids and names, a resource reload,    *)
(* and the binding of the ids it hands out                                 *)
(***************************************************************************)
MaxTextures == 2

\* f without the keys in S
Without(f, S) == [k \in DOMAIN f \ S |-> f[k]]

\* create_texture: the handle gets next_texture_id and is inserted under its
\* id and, when it has one, under its name
create_texture(tm, resource_name) ==
    LET id == tm.next_texture_id
        handle == [resource_name |-> resource_name, texture_id |-> id,
                   texture |-> "None"]
    IN  [tm EXCEPT !.next_texture_id = id + 1,
                   !.made = (id :> handle) @@ @,
                   !.textures_by_id = @ \cup {id},
                   !.textures_by_name =
                        IF resource_name # None
                        THEN (Unwrap(resource_name) :> id) @@ @
                        ELSE @]

\* the history of a reload is kept from the first begin_texture_reload on
SinceBegin(history, x) ==
    IF textures.is_resource_pack_reload THEN history \cup {x} ELSE history

TexturesStep(call) ==
    /\ panicked = NoPanic
    /\ last' = call
    /\ UNCHANGED <<asmVars, commands, exceptTextures>>

CreateTexture(resource_name) ==
    /\ textures.next_texture_id < MaxTextures
    /\ TexturesStep(<<"create_texture", textures.next_texture_id>>)
    /\ textures' = create_texture(textures, resource_name)
    /\ UNCHANGED panicked

\* free_texture: the handle under `id` leaves textures_by_id and whatever is
\* under its name leaves textures_by_name
FreeTexture(id) ==
    /\ TexturesStep(<<"free_texture", id>>)
    /\ textures' =
          IF id \in textures.textures_by_id
          THEN LET name == textures.made[id].resource_name
               IN  [textures EXCEPT
                      !.textures_by_id = @ \ {id},
                      !.textures_by_name =
                          IF name # None THEN Without(@, {Unwrap(name)}) ELSE @,
                      !.reload.freed = SinceBegin(@, id)]
          ELSE textures
    /\ UNCHANGED panicked

\* enqueue_sprite with an image that is TextureImage::None ("None": the
\* handle's texture becomes missingno) or one whose load() fails
\* ("Unloadable": the call returns the error after the name was taken out
\* of unupdated_textures and its handle was looked up or created)
EnqueueSprite(name, image) ==
    /\ name \in DOMAIN textures.textures_by_name
          \/ textures.next_texture_id < MaxTextures
    /\ TexturesStep(<<"enqueue_sprite", name>>)
    /\ LET seen == [textures EXCEPT !.unupdated_textures = @ \ {name},
                                    !.reload.enqueued = SinceBegin(@, name)]
           tm == IF name \in DOMAIN seen.textures_by_name
                 THEN seen ELSE create_texture(seen, Some(name))
           handle == tm.textures_by_name[name]
       IN  textures' = IF image = "None"
                       THEN [tm EXCEPT !.made[handle].texture = "missingno"]
                       ELSE tm
    /\ UNCHANGED panicked

BeginTextureReload ==
    /\ TexturesStep(<<"begin_texture_reload">>)
    /\ textures' = [textures EXCEPT
                      !.is_resource_pack_reload = TRUE,
                      !.unupdated_textures = DOMAIN textures.textures_by_name,
                      !.reload = [existed |-> textures.textures_by_name,
                                  enqueued |-> {}, freed |-> {}]]
    /\ UNCHANGED panicked

\* the maps after the loop of finish_texture_reload has removed `names`
Skip(tm, names) ==
    LET ids == {tm.textures_by_name[n] : n \in names}
    IN  [tm EXCEPT
           !.textures_by_name = Without(@, names),
           !.textures_by_id = @ \ ids,
           !.made = [id \in DOMAIN @ |->
                        IF id \in ids THEN [@[id] EXCEPT !.texture = "missingno"]
                        ELSE @[id]],
           !.unupdated_textures = {},
           !.reload = [existed |-> <<>>, enqueued |-> {}, freed |-> {}]]

\* finish_texture_reload: every name drained from unupdated_textures is
\* removed from textures_by_name with unwrap(), which panics for a name the
\* map no longer has; the names drained before that one (in the order of
\* the HashSet) have been removed by then, and the Drain empties the set
FinishTextureReload ==
    /\ TexturesStep(<<"finish_texture_reload">>)
    /\ LET gone == textures.unupdated_textures \ DOMAIN textures.textures_by_name
       IN  IF gone = {}
           THEN /\ textures' = Skip(textures, textures.unupdated_textures)
                /\ UNCHANGED panicked
           ELSE \E before \in SUBSET (textures.unupdated_textures \ gone) :
                  /\ textures' = Skip(textures, before)
                  /\ panicked' = "finish_texture_reload:unwrap"

\* BindTexture with an id create_texture has handed out (the history keeps it)
FeedBindCreated(id) ==
    /\ panicked = NoPanic
    /\ last' = <<"BindTexture", id>>
    /\ UNCHANGED envVars
    /\ BindTexture(id)

TextureNames == {"a", "b"}
TextureImages == {"None", "Unloadable"}

NextTextures ==
    \/ \E name \in {None} \cup {Some(n) : n \in TextureNames} : CreateTexture(name)
    \/ \E id \in 0 .. (MaxTextures - 1) : FreeTexture(id)
    \/ \E name \in TextureNames, image \in TextureImages : EnqueueSprite(name, image)
    \/ BeginTextureReload
    \/ FinishTextureReload
    \/ \E id \in DOMAIN textures.made : FeedBindCreated(id)

SpecTextures == Init /\ [][NextTextures]_vars

\* C33: binding an id that create_texture has handed out makes it the
\* active texture: get_active_texture returns Some(id) afterwards.
C33_CreatedIdsCanBeBound ==
    [][last'[1] = "BindTexture"
          => texture_units'[active_unit'] = Some(last'[2])]_vars

\* the names a reload leaves out: in textures_by_name at begin_texture_reload
\* and neither enqueued nor freed since
Skipped ==
    {n \in DOMAIN textures.reload.existed :
        /\ n \notin textures.reload.enqueued
        /\ textures.reload.existed[n] \notin textures.reload.freed}

\* C34: a finish_texture_reload that follows a begin_texture_reload does not
\* panic, removes exactly the textures the reload left out from
\* textures_by_name and from textures_by_id, and leaves unupdated_textures
\* empty.
C34_FinishRemovesSkippedTextures ==
    [][(last'[1] = "finish_texture_reload" /\ textures.is_resource_pack_reload)
          => /\ panicked' = NoPanic
             /\ textures'.unupdated_textures = {}
             /\ textures'.textures_by_name
                    = Without(textures.textures_by_name, Skipped)
             /\ textures'.textures_by_id
                    = textures.textures_by_id
                        \ {textures.reload.existed[n] : n \in Skipped}]_vars

(***************************************************************************)
(* Properties of the generated shader sources                              *)
(***************************************************************************)
LinesOf(text) == {text[i] : i \in DOMAIN text}

\* the lines append_io wrote with the direction word `dir`
IoLines(text, dir) ==
    {line \in LinesOf(text) :
        Len(line) = 8 /\ line[1] = "layout(location = " /\ line[3] = dir}

\* the interface a shader declares in one direction: location and type
Interface(text, dir) == {<<line[2], line[4], line[5]>> : line \in IoLines(text, dir)}

\* the names a shader declares, with the built-in output of a vertex shader
DeclaredNames(text) ==
    {line[7] : line \in IoLines(text, ") in ") \cup IoLines(text, ") out ")}
        \cup {"gl_Position"}

\* the variables the lines of main() assign
AssignedNames(text) ==
    {line[2] : line \in {l \in LinesOf(text) :
                            Len(l) >= 3 /\ l[1] = "  " /\ l[3] = " = "}}

\* C35: get_vertex_shader_code returns a text whose declared outputs are the
\* declared inputs of the fragment text of the same spec, location by
\* location and type by type, and each of the two texts declares every
\* variable its main() assigns.
C35_ShaderInterfacesMatch ==
    [][/\ last'[1] = "get_vertex_shader_code"
          => /\ last'[3] # None
             /\ Interface(Unwrap(last'[3]), ") out ")
                  = Interface(Unwrap(get_fragment_shader_code(
                                        ShaderSpecFrom(last'[2])).text), ") in ")
             /\ AssignedNames(Unwrap(last'[3])) \subseteq DeclaredNames(Unwrap(last'[3]))
       /\ last'[1] = "get_fragment_shader_code"
          => /\ last'[3] # None
             /\ AssignedNames(Unwrap(last'[3])) \subseteq DeclaredNames(Unwrap(last'[3]))]_vars

(***************************************************************************)
(* SpecBound: a List sandbox (render_sandbox) and an Assembler sandbox     *)
(* (the assembler's variables) that are given the same instructions        *)
(***************************************************************************)
MaxMirrored == 3

BindTextureInsn(id) == [op |-> "BindTexture", id |-> id]
SetActiveTextureUnitInsn(unit) == [op |-> "SetActiveTextureUnit", unit |-> unit]

\* the List arm of get_bound_texture: the id of the last BindTexture
RECURSIVE ListBoundTexture(_)
ListBoundTexture(insns) ==
    IF insns = <<>> THEN None
    ELSE IF insns[Len(insns)].op = "BindTexture" THEN Some(insns[Len(insns)].id)
    ELSE ListBoundTexture(SubSeq(insns, 1, Len(insns) - 1))

\* RenderSandbox::get_bound_texture of the List sandbox, and of an Assembler
\* sandbox that holds the assembler
get_bound_texture(sandbox) ==
    CASE sandbox.kind = "Assembler" -> get_active_texture
      [] sandbox.kind = "List" -> ListBoundTexture(sandbox.insns)
      [] sandbox.kind = "None" -> None

\* the List sandbox is installed
InstallList ==
    /\ SandboxIsNone(render_sandbox)
    /\ put_sandbox(SandboxList(<<>>))

\* the List sandbox records insn (RenderSandbox::push) while the assembler
\* of the other sandbox is fed it
Mirrored(insn) ==
    /\ panicked = NoPanic
    /\ render_sandbox.kind = "List"
    /\ Len(render_sandbox.insns) < MaxMirrored
    /\ last' = <<"mirrored", insn>>
    /\ render_sandbox' = SandboxList(Append(render_sandbox.insns, insn))
    /\ UNCHANGED <<locked, exceptSandbox>>

MirroredBindTexture(id) == Mirrored(BindTextureInsn(id)) /\ BindTexture(id)

MirroredSetActiveTextureUnit(unit) ==
    Mirrored(SetActiveTextureUnitInsn(unit)) /\ SetActiveTextureUnit(unit)

NextBound ==
    \/ InstallList
    \/ \E id \in {0, 7, 9} : MirroredBindTexture(id)
    \/ \E unit \in {0, 1} : MirroredSetActiveTextureUnit(unit)

SpecBound == Init /\ [][NextBound]_vars

\* C36: after any instruction sequence, get_bound_texture of the List
\* sandbox that recorded it equals get_bound_texture of the Assembler
\* sandbox that was fed it.
C36_ListAgreesWithAssembler ==
    render_sandbox.kind = "List"
        => get_bound_texture(render_sandbox) = get_bound_texture(SandboxAssembler)

(***************************************************************************)
(* Properties of addPointerArray, continued                                *)
(***************************************************************************)
\* C37: addPointerArray called with a supported array kind and a size of 0
\* to 4 completes without a panic, whatever the stride and the length of the
\* source are.
C37_AddPointerArrayNeverPanics ==
    [][(/\ last'[1] = "addPointerArray"
        /\ is_supported(last'[4])
        /\ last'[2] \in 0 .. 4)
          => /\ CallResult(last').panic = NoPanic
             /\ panicked' = NoPanic]_vars

(***************************************************************************)
(* Properties of the matrix stacks, continued                              *)
(***************************************************************************)
\* the levels 0 .. upto of the stacks `old` and `new` hold the same matrices
SameLevels(old, new, upto) ==
    \A l \in 0 .. upto :
        InBounds(old, l) /\ InBounds(new, l) /\ At(new, l) = At(old, l)

\* C38: a PushMatrix saves the top matrix: it does not panic, raises top by
\* one and keeps every level up to the old top; the mutations that follow
\* keep top and every level below it; a PopMatrix lowers top by one and
\* changes no matrix.  So the PopMatrix that balances a PushMatrix leaves
\* get() and top as they were before the PushMatrix.
C38_PushPopRestoresTop ==
    [][(panicked = NoPanic /\ last'[1] \in MatrixMutations)
        => LET old == matrix_stacks[active_matrix]
               new == matrix_stacks'[active_matrix]
           IN  /\ panicked' = NoPanic
               /\ last'[1] = "PushMatrix"
                    => new.top = old.top + 1 /\ SameLevels(old, new, old.top)
               /\ (last'[1] = "PopMatrix" /\ old.top > 0)
                    => new.top = old.top - 1 /\ SameLevels(old, new, old.top)
               /\ last'[1] \notin {"PushMatrix", "PopMatrix"}
                    => new.top = old.top /\ SameLevels(old, new, old.top - 1)]_vars

(***************************************************************************)
(* SpecSpin: threads that lock a shared SpinLock, update its data through  *)
(* the guard in two steps (a read and a write) and drop the guard          *)
(***************************************************************************)
MaxUpdates == 3

\* a swap that takes the flag for clear whatever it holds
AtomicSwap_blind(flag, value) == [previous |-> FALSE, stored |-> value]

\* AtomicBool::swap: the value the flag held and the value it holds now
AtomicSwap(flag, value) == [previous |-> flag, stored |-> value]

SpinStep(call) ==
    /\ panicked = NoPanic
    /\ last' = call
    /\ UNCHANGED <<asmVars, commands, panicked, exceptSpin>>

\* one turn of the loop of lock(): the swap; the call returns a guard when
\* the swap observed false and spins otherwise
SpinLockSwap(t) ==
    /\ spin.at[t] \in {"idle", "spinning"}
    /\ SpinStep(<<"swap", t>>)
    /\ LET swapped == AtomicSwap(spin.locked, TRUE)
       IN  spin' = [spin EXCEPT
                      !.locked = swapped.stored,
                      !.at[t] = IF swapped.previous THEN "spinning" ELSE "guard",
                      !.waited[t] = IF swapped.previous THEN TRUE ELSE @]

\* Deref through the guard: the thread reads the data
SpinGuardRead(t) ==
    /\ spin.at[t] = "guard"
    /\ spin.updates < MaxUpdates
    /\ SpinStep(<<"deref", t>>)
    /\ spin' = [spin EXCEPT !.at[t] = "guard_read", !.read[t] = spin.data]

\* DerefMut through the guard: the thread stores the value it read, plus one
SpinGuardWrite(t) ==
    /\ spin.at[t] = "guard_read"
    /\ SpinStep(<<"deref_mut", t>>)
    /\ spin' = [spin EXCEPT !.at[t] = "guard", !.data = spin.read[t] + 1,
                            !.updates = @ + 1]

\* Drop for SpinGuard: locked.store(false)
SpinGuardDrop(t) ==
    /\ spin.at[t] = "guard"
    /\ SpinStep(<<"drop_guard", t>>)
    /\ spin' = [spin EXCEPT !.locked = FALSE, !.at[t] = "idle",
                            !.waited[t] = FALSE]

NextSpin ==
    \/ \E t \in SpinThreads : SpinLockSwap(t)
    \/ \E t \in SpinThreads : SpinGuardRead(t)
    \/ \E t \in SpinThreads : SpinGuardWrite(t)
    \/ \E t \in SpinThreads : SpinGuardDrop(t)

SpecSpin == Init /\ [][NextSpin]_vars

\* the threads that hold a SpinGuard
GuardHolders == {t \in SpinThreads : spin.at[t] \in {"guard", "guard_read"}}

\* C39: at most one SpinGuard exists at any time and the lock is held while
\* it does; lock() returns a guard exactly to the thread whose swap observed
\* false; no update made through a guard is lost; dropping the guard clears
\* locked, after which the swap of a waiting thread succeeds.
C39_OneGuardAtATime ==
    /\ [](/\ Cardinality(GuardHolders) <= 1
          /\ GuardHolders # {} => spin.locked
          /\ spin.data = spin.updates)
    /\ [][/\ last'[1] = "swap"
             => (spin'.at[last'[2]] = "guard") = ~spin.locked
          /\ last'[1] = "drop_guard"
             => /\ ~spin'.locked
                /\ \A t \in SpinThreads :
                      spin'.at[t] = "spinning" => ENABLED SpinLockSwap(t)]_vars

\* a thread whose swap had failed holds the guard after another thread's
\* update and drop
C39_Witness ==
    /\ \E t \in SpinThreads :
          spin.at[t] = "guard" /\ spin.waited[t] /\ last = <<"swap", t>>
    /\ spin.updates > 0

====
